---- MODULE Spec2Model ----
(***************************************************************************)
(* The record repository of the invoice worker: the invoices and           *)
(* source_files tables (src/src/utils/database.ts), the repository         *)
(* functions insertInvoice, getInvoiceById, updateInvoice, deleteInvoice   *)
(* and markInvoiceAsPaid (src/unnamed/part_010, the current api/invoices)  *)
(* and the API routes that call them (src/src/index.ts).  Every awaited    *)
(* SQL statement is one atomic step of the worker that runs it.            *)
(*                                                                         *)
(* Encoding of values.  JavaScript and SQL scalars are strings: NULL is    *)
(* the SQL NULL / JS null, a number n is written "#n", a JSON boolean      *)
(* "true"/"false".  A nullable array or a nullable JSON text is a record   *)
(* [isNull, val] with val a sequence.                                      *)
(***************************************************************************)
EXTENDS Naturals, Integers, Sequences, FiniteSets, TLC

VARIABLES
    invoices,         \* the rows of table invoices (a set of records)
    source_files,     \* the rows of table source_files (a set of records)
    seq_invoices,     \* AUTOINCREMENT counter of invoices.id
    seq_source_files, \* AUTOINCREMENT counter of source_files.id
    now,              \* the database clock read by datetime('now')
    nops,             \* number of operations started so far
    proc,             \* per worker: the running request and its locals
    applied,          \* history: <<id, key>> for every payload key an UPDATE of
                      \* updateInvoice has applied to the record that has this id
    mail,             \* the email handler: the message it handles and its locals
    R2                \* the R2 bucket: the stored objects, [key, body]

vars == <<invoices, source_files, seq_invoices, seq_source_files, now, nops, proc,
          applied, mail, R2>>

(* ------------------------------ bounds --------------------------------- *)
MaxOps == 3
MaxClock == 1
MaxMails == 2
MaxAttachments == 2
MaxTokens == 5

Procs == {"w1", "w2"}
SeqProcs == {"w1"}
MessageIds == {"<a@mail>", "<b@mail>"}

(* ------------------------------ values --------------------------------- *)
NULL == "<null>"
Zero == "#0"
JsTrue == "true"
JsFalse == "false"

NullV == [isNull |-> TRUE, val |-> <<>>]
Val(x) == [isNull |-> FALSE, val |-> x]

\* JavaScript truthiness of a scalar: null, 0 and "" are falsy.
JsFalsy(v) == v \in {NULL, Zero, "", JsFalse}

\* `x || null` as used when binding the INSERT parameters.
OrNull(v) == IF JsFalsy(v) THEN NULL ELSE v

\* datetime('now'): the text of the current second.
DateTime(n) == "2026-01-01 00:00:0" \o ToString(n)

\* JSON.stringify of an array of strings, and JSON.parse of such a text.
JSONstringify(arr) == <<"[">> \o arr \o <<"]">>
IsJSONArrayText(t) == Len(t) >= 2 /\ t[1] = "[" /\ t[Len(t)] = "]"
JSONparse(t) == SubSeq(t, 2, Len(t) - 1)

parseManuallyEditedFields(json) ==
    IF json.isNull \/ json.val = <<>> THEN NullV
    ELSE IF IsJSONArrayText(json.val) THEN Val(JSONparse(json.val))
    ELSE NullV

(* ------------------- JSON objects (ordered key/value) ------------------ *)
Keys(o) == [i \in 1..Len(o) |-> o[i][1]]
KeySet(o) == {o[i][1] : i \in 1..Len(o)}
HasKey(o, k) == k \in KeySet(o)
Get(o, k) == o[CHOOSE i \in 1..Len(o) : o[i][1] = k][2]
\* o.k = v: an existing key keeps its place, a new key is appended.
SetKey(o, k, v) ==
    IF HasKey(o, k) THEN [i \in 1..Len(o) |-> IF o[i][1] = k THEN <<k, v>> ELSE o[i]]
    ELSE Append(o, <<k, v>>)
\* const { k, ...rest } = o
RECURSIVE RemoveKey(_, _)
RemoveKey(o, k) ==
    IF o = <<>> THEN <<>>
    ELSE IF Head(o)[1] = k THEN RemoveKey(Tail(o), k)
    ELSE <<Head(o)>> \o RemoveKey(Tail(o), k)

\* [...new Set(xs)]: first occurrences, in order.
RECURSIVE SetOrder(_, _)
SetOrder(xs, seen) ==
    IF xs = <<>> THEN <<>>
    ELSE IF Head(xs) \in seen THEN SetOrder(Tail(xs), seen)
    ELSE <<Head(xs)>> \o SetOrder(Tail(xs), seen \cup {Head(xs)})

Range(s) == {s[i] : i \in 1..Len(s)}

EditableField ==
    {"supplier", "amount", "currency", "account_balance", "invoice_id",
     "account_to_pay_IBAN", "account_to_pay_BIC", "account_to_pay_REG",
     "account_to_pay_ACCOUNT_NUMBER", "last_payment_date", "status"}

InvoiceStatus == {"unpaid", "paid", "no_payment_due"}

\* An InvoiceUpdateRequest: editable fields only, status (if given) an InvoiceStatus.
IsInvoiceUpdateRequest(updates) ==
    /\ KeySet(updates) \subseteq EditableField
    /\ HasKey(updates, "status") => Get(updates, "status") \in InvoiceStatus

(* ------------------------------ inputs --------------------------------- *)
Ext(items, supplier, amount, currency, invoiceId, iban, bic, reg, accno, date) ==
    [items |-> items, supplier |-> supplier, amount |-> amount, currency |-> currency,
     invoiceId |-> invoiceId, accountIBAN |-> iban, accountBIC |-> bic,
     accountREG |-> reg, accountNumber |-> accno, lastPaymentDate |-> date,
     sourceFileReference |-> NULL]

\* Extractions the engine can hand to insertInvoice: the all-null fallback, a full
\* one, and one with amount 0, no items and some fields null.
FullExtraction ==
    Ext(<<"rent">>, "Acme", "#150", "DKK", "INV-1", "DK50", "NDEADKKK", "1234", "5678",
        "2026-02-01")
Extractions ==
    { Ext(<<>>, NULL, NULL, NULL, NULL, NULL, NULL, NULL, NULL, NULL),
      FullExtraction,
      Ext(<<>>, NULL, Zero, "DKK", "INV-1", NULL, "NDEADKKK", NULL, "5678", NULL) }

File(name, uri) == [filename |-> name, blob_uri |-> uri]
SourceFileLists ==
    { <<>>,
      <<File("a.pdf", "bronze/t/a/a.pdf"), File("b.png", "bronze/t/a/b.png")>> }

\* Bodies of PATCH requests (JSON objects, keys in the order sent).
Bodies ==
    { <<>>,
      <<<<"status", "paid">>>>,
      <<<<"status", "unpaid">>>>,
      <<<<"status", "no_payment_due">>>>,
      <<<<"amount", Zero>>, <<"supplier", NULL>>, <<"status", "paid">>>>,
      <<<<"currency", "EUR">>, <<"account_balance", "#20">>, <<"invoice_id", "INV-2">>,
        <<"account_to_pay_IBAN", NULL>>, <<"account_to_pay_BIC", "NDEADKKK">>,
        <<"account_to_pay_REG", "1234">>, <<"account_to_pay_ACCOUNT_NUMBER", NULL>>,
        <<"last_payment_date", "2026-03-01">>>>,
      <<<<"paid", JsTrue>>>>,
      <<<<"paid", JsTrue>>, <<"status", "unpaid">>>>,
      <<<<"paid", JsFalse>>, <<"supplier", "Acme">>>>,
      <<<<"status", NULL>>>> }

\* The inputs of the concurrent runs: the ones whose races the statements decide.
RaceExtractions == {FullExtraction}
RaceBodies ==
    { <<<<"status", "paid">>>>,
      <<<<"status", "unpaid">>>>,
      <<<<"paid", JsFalse>>, <<"supplier", "Acme Ltd">>>> }

(* ------------------------------ schema --------------------------------- *)
\* Mutant: the UNIQUE constraint on message_id is missing.
MessageIdUnchecked(rows, messageId) == TRUE

\* message_id TEXT NOT NULL UNIQUE
MessageIdUnique(rows, messageId) == \A r \in rows : r.message_id # messageId

\* Mutant: the FOREIGN KEY clause of source_files is missing.
ForeignKeyUnchecked(rows, messageId) == TRUE

\* FOREIGN KEY (message_id) REFERENCES invoices(message_id), on inserting a child
ForeignKeyHolds(rows, messageId) == \E r \in rows : r.message_id = messageId

\* the same constraint on deleting a parent: no child row may still name it
NoChildRows(files, messageId) == \A f \in files : f.message_id # messageId

\* status TEXT NOT NULL DEFAULT 'unpaid'
StatusNotNull(v) == v # NULL

\* Mutant: the INSERT also writes manually_edited_fields, as if the status had been
\* set by hand.
NewInvoiceRowEdited(id, messageId, extraction, t) ==
    [id |-> id, message_id |-> messageId,
     supplier |-> OrNull(extraction.supplier), amount |-> OrNull(extraction.amount),
     currency |-> OrNull(extraction.currency), invoice_id |-> OrNull(extraction.invoiceId),
     account_to_pay_IBAN |-> OrNull(extraction.accountIBAN),
     account_to_pay_BIC |-> OrNull(extraction.accountBIC),
     account_to_pay_REG |-> OrNull(extraction.accountREG),
     account_to_pay_ACCOUNT_NUMBER |-> OrNull(extraction.accountNumber),
     last_payment_date |-> OrNull(extraction.lastPaymentDate),
     items_json |-> IF Len(extraction.items) > 0
                    THEN Val(JSONstringify(extraction.items)) ELSE NullV,
     paid |-> 0, paid_at |-> NULL, created_at |-> DateTime(t), account_balance |-> NULL,
     manually_edited_fields |-> Val(JSONstringify(<<"status">>)),
     status |-> "unpaid"]

\* The row INSERT INTO invoices (...) VALUES (...) RETURNING * creates.
NewInvoiceRow(id, messageId, extraction, t) ==
    [id |-> id,
     message_id |-> messageId,
     supplier |-> OrNull(extraction.supplier),
     amount |-> OrNull(extraction.amount),
     currency |-> OrNull(extraction.currency),
     invoice_id |-> OrNull(extraction.invoiceId),
     account_to_pay_IBAN |-> OrNull(extraction.accountIBAN),
     account_to_pay_BIC |-> OrNull(extraction.accountBIC),
     account_to_pay_REG |-> OrNull(extraction.accountREG),
     account_to_pay_ACCOUNT_NUMBER |-> OrNull(extraction.accountNumber),
     last_payment_date |-> OrNull(extraction.lastPaymentDate),
     items_json |-> IF Len(extraction.items) > 0
                    THEN Val(JSONstringify(extraction.items)) ELSE NullV,
     paid |-> 0,
     paid_at |-> NULL,
     created_at |-> DateTime(t),
     account_balance |-> NULL,
     manually_edited_fields |-> NullV,
     status |-> "unpaid"]

\* The rows of one db.batch of INSERT INTO source_files, ids from the counter.
NewSourceFileRows(first, messageId, sourceFiles, t) ==
    { [id |-> first + i, message_id |-> messageId,
       filename |-> sourceFiles[i].filename, blob_uri |-> sourceFiles[i].blob_uri,
       created_at |-> DateTime(t)] : i \in 1..Len(sourceFiles) }

\* A result set in rowid order.
RECURSIVE ById(_)
ById(rows) ==
    IF rows = {} THEN <<>>
    ELSE LET r == CHOOSE x \in rows : \A y \in rows : x.id <= y.id
         IN <<r>> \o ById(rows \ {r})

RowsWithId(rows, id) == {r \in rows : r.id = id}

(* --------------------------- updateInvoice ----------------------------- *)
\* Mutant: `if (updates.col)`, which skips a null (or 0, or "") given for col.
SetColIfTruthy(row, updates, col) ==
    IF HasKey(updates, col) /\ ~JsFalsy(Get(updates, col))
    THEN [row EXCEPT ![col] = Get(updates, col)] ELSE row

\* if (updates.col !== undefined) { setClauses.push('col = ?'); values.push(updates.col) }
SetCol(row, updates, col) ==
    IF HasKey(updates, col) THEN [row EXCEPT ![col] = Get(updates, col)] ELSE row

existingEditedFields(currentInvoice) ==
    LET parsed == parseManuallyEditedFields(currentInvoice.manually_edited_fields)
    IN IF parsed.isNull THEN <<>> ELSE parsed.val

fieldsBeingUpdated(updates) == Keys(updates)

\* Mutant: the keys of the payload are appended as they come.
newEditedFieldsAppended(currentInvoice, updates) ==
    existingEditedFields(currentInvoice) \o fieldsBeingUpdated(updates)

newEditedFields(currentInvoice, updates) ==
    SetOrder(existingEditedFields(currentInvoice) \o fieldsBeingUpdated(updates), {})

\* Mutant: leaving 'paid' does not clear paid_at.
SetStatusKeepPaidAt(row, currentInvoice, updates, t) ==
    IF HasKey(updates, "status")
    THEN LET s == [row EXCEPT !.status = Get(updates, "status")]
         IN IF Get(updates, "status") = "paid" THEN [s EXCEPT !.paid_at = DateTime(t)]
            ELSE s
    ELSE row

\* Mutant: paid_at is cleared whenever the new status is not 'paid', and never set.
SetStatusNoTimestamp(row, currentInvoice, updates, t) ==
    IF HasKey(updates, "status")
    THEN [row EXCEPT !.status = Get(updates, "status"), !.paid_at = NULL]
    ELSE row

\* Mutant: an update that names no status clears paid_at.
SetStatusOrClear(row, currentInvoice, updates, t) ==
    IF HasKey(updates, "status")
    THEN LET s == [row EXCEPT !.status = Get(updates, "status")]
         IN IF Get(updates, "status") = "paid" THEN [s EXCEPT !.paid_at = DateTime(t)]
            ELSE IF currentInvoice.status = "paid" THEN [s EXCEPT !.paid_at = NULL]
            ELSE s
    ELSE [row EXCEPT !.paid_at = NULL]

\* The status clause and its paid_at side effect.
SetStatus(row, currentInvoice, updates, t) ==
    IF HasKey(updates, "status")
    THEN LET s == [row EXCEPT !.status = Get(updates, "status")]
         IN IF Get(updates, "status") = "paid" THEN [s EXCEPT !.paid_at = DateTime(t)]
            ELSE IF currentInvoice.status = "paid" THEN [s EXCEPT !.paid_at = NULL]
            ELSE s
    ELSE row

\* Mutant: only the fields of this call are written, the earlier ones are lost.
SetEditedFieldsOfCall(row, currentInvoice, updates) ==
    [row EXCEPT !.manually_edited_fields = Val(JSONstringify(fieldsBeingUpdated(updates)))]

\* Mutant: the names are merged with what the row holds when the UPDATE runs.
SetEditedFieldsOfRow(row, currentInvoice, updates) ==
    [row EXCEPT !.manually_edited_fields =
        Val(JSONstringify(newEditedFields(
            [manually_edited_fields |-> row.manually_edited_fields,
             status |-> row.status], updates)))]

\* manually_edited_fields = ? is always part of the SET list.
SetEditedFields(row, currentInvoice, updates) ==
    [row EXCEPT !.manually_edited_fields =
        Val(JSONstringify(newEditedFields(currentInvoice, updates)))]

\* The row after UPDATE invoices SET <setClauses> WHERE id = ?
UpdatedRow(row, currentInvoice, updates, t) ==
    LET r1 == SetCol(row, updates, "supplier")
        r2 == SetCol(r1, updates, "amount")
        r3 == SetCol(r2, updates, "currency")
        r4 == SetCol(r3, updates, "account_balance")
        r5 == SetCol(r4, updates, "invoice_id")
        r6 == SetCol(r5, updates, "account_to_pay_IBAN")
        r7 == SetCol(r6, updates, "account_to_pay_BIC")
        r8 == SetCol(r7, updates, "account_to_pay_REG")
        r9 == SetCol(r8, updates, "account_to_pay_ACCOUNT_NUMBER")
        r10 == SetCol(r9, updates, "last_payment_date")
        r11 == SetStatus(r10, currentInvoice, updates, t)
    IN SetEditedFields(r11, currentInvoice, updates)

\* The legacy { paid: true } translation of the PATCH route, then the removal of paid.
LegacyStatus(body) ==
    IF HasKey(body, "paid") /\ Get(body, "paid") = JsTrue
       /\ (~HasKey(body, "status") \/ JsFalsy(Get(body, "status")))
    THEN SetKey(body, "status", "paid") ELSE body

\* Mutant: the legacy key is not removed from the payload.
PatchUpdatesWithPaid(body) == LegacyStatus(body)

PatchUpdates(body) == RemoveKey(LegacyStatus(body), "paid")

\* The InvoiceDetail getInvoiceById builds from the row and its source files.
InvoiceDetail(invoice, files) ==
    [invoice EXCEPT !.manually_edited_fields =
        parseManuallyEditedFields(invoice.manually_edited_fields)]
    @@ [source_files |-> files]

(* ------------------------ the inbound message ------------------------- *)
\* getAllowedSenders(env): the addresses configured in the environment.
AllowedSenders == {"owner@mail"}

\* An attachment as the mail parser hands it over; filename and mimeType may be missing.
Att(filename, mimeType, content) ==
    [filename |-> filename, mimeType |-> mimeType, content |-> content]

PdfA == Att("a.pdf", "application/pdf", "bytes of a.pdf")
NoName == Att(NULL, "image/png", "bytes of a picture")

\* The messages the handler is given, any of them possibly more than once: an
\* invoice with a covering note, an empty message, and a message of a stranger that
\* uses the Message-ID of the first.
Message(from, messageId, text, html, attachments) ==
    [from |-> from, messageId |-> messageId, text |-> text, html |-> html,
     attachments |-> attachments]
Inbox ==
    { Message("owner@mail", "<a@mail>", "Please pay", "", <<PdfA, NoName>>),
      Message("owner@mail", "<b@mail>", "", "", <<>>),
      Message("stranger@mail", "<a@mail>", "Please pay", "", <<PdfA>>) }

\* processAttachments: filename and contentType get their defaults.
processAttachments(attachments) ==
    [i \in 1..Len(attachments) |->
        [filename |-> IF JsFalsy(attachments[i].filename) THEN "unnamed"
                      ELSE attachments[i].filename,
         contentType |-> IF JsFalsy(attachments[i].mimeType) THEN "application/octet-stream"
                         ELSE attachments[i].mimeType,
         data |-> attachments[i].content]]

(* ----------------------------- R2 storage ------------------------------ *)
\* generateTimestamp(): the ISO text of the current second, ':' and '.' replaced.
generateTimestamp(t) == "2026-01-01T00-00-0" \o ToString(t) \o "Z"

\* messageId.replace(/[^a-zA-Z0-9]/g, '_')
SanitizedMessageId(messageId) ==
    CASE messageId = "<a@mail>" -> "_a_mail_"
      [] messageId = "<b@mail>" -> "_b_mail_"

\* filename.replace(/[^a-zA-Z0-9._-]/g, '_')
SanitizedFilename(filename) ==
    CASE filename = "b 1.png" -> "b_1.png"
      [] OTHER -> filename

\* A storage key is the sequence of its segments, which the code joins with '/'.
getBronzePath(timestamp, messageId, filename) ==
    <<"bronze", timestamp, SanitizedMessageId(messageId), filename>>
getSilverPath(timestamp, messageId, filename) ==
    <<"silver", timestamp, SanitizedMessageId(messageId), SanitizedFilename(filename) \o ".md">>
getGoldPath(timestamp, messageId) ==
    <<"gold", timestamp, SanitizedMessageId(messageId), "extracted.json">>

Join(path) == path[1] \o "/" \o path[2] \o "/" \o path[3] \o "/" \o path[4]

\* path.endsWith(`/${filename}`), for a filename without '/'
PathEndsWith(path, filename) == path[Len(path)] = filename

Object(key, body) == [key |-> key, body |-> body]

\* r2.put(key, body): the object under key is created or replaced.
Put(bucket, object) == (object.key :> object.body) @@ bucket

RECURSIVE PutAll(_, _)
PutAll(bucket, objects) ==
    IF objects = <<>> THEN bucket
    ELSE PutAll(Put(bucket, Head(objects)), Tail(objects))

\* The objects persistToBronzeLayer writes, in the order it writes them.
BronzeObjects(timestamp, messageId, from, attachments) ==
    << Object(getBronzePath(timestamp, messageId, "email.raw"), "raw email"),
       Object(getBronzePath(timestamp, messageId, "metadata.json"),
              [messageId |-> messageId, from |-> from]) >>
    \o [i \in 1..Len(attachments) |->
          Object(getBronzePath(timestamp, messageId, attachments[i].filename),
                 attachments[i].data)]

\* The objects persistToSilverLayer writes.
SilverObjects(timestamp, messageId, markdownFiles) ==
    [i \in 1..Len(markdownFiles) |->
        Object(getSilverPath(timestamp, messageId, markdownFiles[i].filename),
               markdownFiles[i].content)]

\* The object persistToGoldLayer writes.
GoldObject(timestamp, messageId, extractedData) ==
    Object(getGoldPath(timestamp, messageId), extractedData)

PathsOf(objects) == [i \in 1..Len(objects) |-> objects[i].key]

(* ----------------- processEmailAndAttachmentsToMarkdown ---------------- *)
\* The documents handed to ai.toMarkdown: the email body if there is one (HTML
\* preferred over text), then every attachment.
MarkdownDocuments(emailText, emailHtml, attachments) ==
    (IF ~JsFalsy(emailHtml) \/ ~JsFalsy(emailText)
     THEN <<[name |-> "email-body",
             type |-> IF ~JsFalsy(emailHtml) THEN "text/html" ELSE "text/plain",
             blob |-> IF ~JsFalsy(emailHtml) THEN emailHtml ELSE emailText]>>
     ELSE <<>>)
    \o [i \in 1..Len(attachments) |->
          [name |-> attachments[i].filename, type |-> attachments[i].contentType,
           blob |-> attachments[i].data]]

\* One ConversionResult of ai.toMarkdown for a document: converted, converted to
\* nothing (no data), or an error result.
ConversionFormats == {"markdown", "empty", "error"}
ConversionResult(doc, format) ==
    [name |-> doc.name,
     format |-> IF format = "error" THEN "error" ELSE "markdown",
     data |-> IF format = "markdown" THEN "markdown of " \o doc.name ELSE "",
     error |-> IF format = "error" THEN "unsupported" ELSE ""]

\* What the call ai.toMarkdown(documents) can do: throw, or return one result per
\* document (for a single document possibly the bare result instead of an array; then
\* results holds that one result).
ToMarkdownThrows == [threw |-> TRUE, isArray |-> TRUE, results |-> <<>>]
ToMarkdownOutcomes(documents, formats) ==
    {ToMarkdownThrows} \cup
    { [threw |-> FALSE, isArray |-> a,
       results |-> [i \in 1..Len(documents) |-> ConversionResult(documents[i], f[i])]] :
         a \in (IF Len(documents) = 1 THEN BOOLEAN ELSE {TRUE}),
         f \in [1..Len(documents) -> formats] }

\* Array.isArray(results) ? results : [results]
ResultArray(outcome) ==
    IF outcome.isArray THEN outcome.results ELSE <<outcome.results[1]>>

ErrorPlaceholder(result) ==
    [filename |-> result.name,
     content |-> "# " \o result.name \o "\n\n[Conversion error: " \o result.error \o "]"]

FailedPlaceholder(doc) ==
    [filename |-> doc.name,
     content |-> "# " \o doc.name \o "\n\n[AI conversion failed: Error]"]

\* Mutant: a document whose conversion failed is left out of the list.
MarkdownOfResultsDropErrors(results) ==
    SelectSeq([i \in 1..Len(results) |->
                  [filename |-> results[i].name, content |-> results[i].data]],
              LAMBDA f : f.content # "")

\* resultArray.map(...)
MarkdownOfResults(results) ==
    [i \in 1..Len(results) |->
        IF results[i].format = "error" THEN ErrorPlaceholder(results[i])
        ELSE [filename |-> results[i].name,
              content |-> IF JsFalsy(results[i].data) THEN "" ELSE results[i].data]]

processEmailAndAttachmentsToMarkdown(outcome, emailText, emailHtml, attachments) ==
    LET markdownDocuments == MarkdownDocuments(emailText, emailHtml, attachments)
    IN IF Len(markdownDocuments) = 0 THEN <<>>
       ELSE IF outcome.threw
            THEN [i \in 1..Len(markdownDocuments) |-> FailedPlaceholder(markdownDocuments[i])]
            ELSE MarkdownOfResults(ResultArray(outcome))

(* --------------------------- extractInvoiceInfo ------------------------ *)
\* The response text of the LLM as a sequence of tokens: braces, prose, and inside
\* an object its members (key and scalar value, key and array, key of a nested object).
Tok(t, k, v, a) == [t |-> t, k |-> k, v |-> v, a |-> a]
Open == Tok("{", "", "", <<>>)
Close == Tok("}", "", "", <<>>)
Prose == Tok("prose", "", "", <<>>)
Member(k, v) == Tok("member", k, v, <<>>)
ArrayMember(k, a) == Tok("array", k, "", a)
Key(k) == Tok("key", k, "", <<>>)

\* Number of braces open after the first i tokens of s.
RECURSIVE Depth(_, _)
Depth(s, i) ==
    IF i = 0 THEN 0
    ELSE Depth(s, i - 1) + (IF s[i].t = "{" THEN 1 ELSE 0) - (IF s[i].t = "}" THEN 1 ELSE 0)

Min(S) == CHOOSE x \in S : \A y \in S : x <= y
Max(S) == CHOOSE x \in S : \A y \in S : x >= y

Opens(s) == {i \in 1..Len(s) : s[i].t = "{"}
Closes(s) == {i \in 1..Len(s) : s[i].t = "}"}

\* The first brace-matched substring: from the first '{' to the '}' that closes it.
BalancedMatch(s) ==
    IF Opens(s) = {} THEN NullV
    ELSE LET first == Min(Opens(s))
             ends == {j \in first..Len(s) : Depth(s, j) = Depth(s, first - 1)}
         IN IF ends = {} THEN NullV ELSE Val(SubSeq(s, first, Min(ends)))

\* responseText.match(/\{[\s\S]*\}/): from the first '{' to the last '}'.
JsonMatch(s) ==
    IF Opens(s) = {} \/ Closes(s) = {} \/ Max(Closes(s)) < Min(Opens(s)) THEN NullV
    ELSE Val(SubSeq(s, Min(Opens(s)), Max(Closes(s))))

\* JSON.parse succeeds on a text that is one object: braces balanced around it, no
\* prose in it, every nested object the value of a key.
IsJSONObjectText(s) ==
    /\ Len(s) >= 2 /\ s[1].t = "{" /\ s[Len(s)].t = "}"
    /\ \A i \in 1..Len(s) :
          /\ s[i].t # "prose"
          /\ i < Len(s) => Depth(s, i) >= 1
          /\ (s[i].t = "{" /\ i > 1) => s[i - 1].t = "key"
          /\ s[i].t = "key" => (i < Len(s) /\ s[i + 1].t = "{")
    /\ Depth(s, Len(s)) = 0

\* The members of the parsed object: the positions of its own (not nested) members.
MemberAt(s, k) ==
    {i \in 1..Len(s) : s[i].t \in {"member", "array"} /\ s[i].k = k /\ Depth(s, i) = 1}
HasMember(s, k) == MemberAt(s, k) # {}
\* a repeated key has the value of its last occurrence
MemberOf(s, k) == s[Max(MemberAt(s, k))]

\* extracted.k || null
MemberOrNull(s, k) ==
    IF HasMember(s, k) /\ MemberOf(s, k).t = "member" /\ ~JsFalsy(MemberOf(s, k).v)
    THEN MemberOf(s, k).v ELSE NULL

\* extracted.items || []
ItemsOrEmpty(s) ==
    IF HasMember(s, "items") /\ MemberOf(s, "items").t = "array"
    THEN MemberOf(s, "items").a ELSE <<>>

\* sourceFiles[0] || null
FirstFilename(markdownContents) ==
    IF Len(markdownContents) = 0 THEN NULL ELSE OrNull(markdownContents[1].filename)

\* Mutant: the default structure names no source file.
FallbackExtractionNoFile(markdownContents) ==
    Ext(<<>>, NULL, NULL, NULL, NULL, NULL, NULL, NULL, NULL, NULL)

\* The default structure returned on any error.
FallbackExtraction(markdownContents) ==
    [Ext(<<>>, NULL, NULL, NULL, NULL, NULL, NULL, NULL, NULL, NULL)
        EXCEPT !.sourceFileReference = FirstFilename(markdownContents)]

\* The structure built from the parsed object.
ExtractionOf(extracted, markdownContents) ==
    [items |-> ItemsOrEmpty(extracted),
     supplier |-> MemberOrNull(extracted, "supplier"),
     amount |-> MemberOrNull(extracted, "amount"),
     currency |-> MemberOrNull(extracted, "currency"),
     invoiceId |-> MemberOrNull(extracted, "invoiceId"),
     accountIBAN |-> MemberOrNull(extracted, "accountIBAN"),
     accountBIC |-> MemberOrNull(extracted, "accountBIC"),
     accountREG |-> MemberOrNull(extracted, "accountREG"),
     accountNumber |-> MemberOrNull(extracted, "accountNumber"),
     lastPaymentDate |-> MemberOrNull(extracted, "lastPaymentDate"),
     sourceFileReference |->
        IF MemberOrNull(extracted, "sourceFileReference") # NULL
        THEN MemberOrNull(extracted, "sourceFileReference")
        ELSE FirstFilename(markdownContents)]

\* What ai.run can do: throw, or return a result whose response is a text.
LlmThrows == [threw |-> TRUE, response |-> <<>>]
Responds(text) == [threw |-> FALSE, response |-> text]

\* result.response || result.text || JSON.stringify(result), for a result that has
\* only the response
ResponseText(outcome) ==
    IF outcome.response # <<>> THEN outcome.response
    ELSE <<Open, Member("response", ""), Close>>

extractInvoiceInfo(outcome, markdownContents) ==
    IF outcome.threw THEN FallbackExtraction(markdownContents)
    ELSE LET jsonMatch == JsonMatch(ResponseText(outcome))
         IN IF jsonMatch.isNull THEN FallbackExtraction(markdownContents)
            ELSE IF ~IsJSONObjectText(jsonMatch.val) THEN FallbackExtraction(markdownContents)
            ELSE ExtractionOf(jsonMatch.val, markdownContents)

\* The response texts of up to MaxTokens tokens.
Alphabet ==
    {Open, Close, Prose, Member("supplier", "Acme"), Member("amount", "#150"), Key("meta")}
ResponseTexts == UNION {[1..n -> Alphabet] : n \in 0..MaxTokens}
LlmOutcomes == {LlmThrows} \cup {Responds(text) : text \in ResponseTexts}

\* The answers of the LLM in the runs of the whole handler: it throws, answers with
\* prose only, with an object followed by a remark in braces, or with an object in prose.
GoodResponse ==
    <<Prose, Open, Member("supplier", "Acme"), Member("amount", "#150"),
      ArrayMember("items", <<"rent">>), Close, Prose>>
MailLlmOutcomes ==
    { LlmThrows,
      Responds(<<Prose>>),
      Responds(<<Open, Member("supplier", "Acme"), Prose, Close>>),
      Responds(GoodResponse) }

\* The documents extractInvoiceInfo is given in the runs of the function alone.
Doc(filename, content) == [filename |-> filename, content |-> content]
DocumentLists ==
    { <<>>,
      <<Doc("email-body", "markdown of email-body")>>,
      <<Doc("email-body", "markdown of email-body"), Doc("a.pdf", "markdown of a.pdf")>>,
      <<Doc("a.pdf", "# a.pdf\n\n[Conversion error: unsupported]")>> }

(* ------------------------------ workers -------------------------------- *)
NoExtraction == Ext(<<>>, NULL, NULL, NULL, NULL, NULL, NULL, NULL, NULL, NULL)
NoCurrent == [manually_edited_fields |-> NullV, status |-> NULL]
NoSnapshot == [invoices |-> {}, source_files |-> {}]
NoOptions == [unpaidOnly |-> FALSE, limit |-> NullV, offset |-> NullV]

\* What handleApiRequest holds of a request: the request, env.ENVIRONMENT, the result
\* of verifyAccessJWT, the path of the file asked for and the object r2.get returned.
NotVerified == [authenticated |-> FALSE, email |-> NULL, error |-> NULL]
NoApi ==
    [request |-> [method |-> "", route |-> "", jwt |-> NullV], environment |-> "",
     authResult |-> NotVerified, filePath |-> <<>>, object |-> NullV]

Idle ==
    [pc |-> "idle", op |-> "none", id |-> 0, messageId |-> "", extraction |-> NoExtraction,
     sourceFiles |-> <<>>, body |-> <<>>, updates |-> <<>>, currentInvoice |-> NoCurrent,
     invoice |-> NullV, result |-> NullV, success |-> FALSE, threw |-> FALSE,
     http |-> 0, pre |-> NoSnapshot, options |-> NoOptions, rows |-> <<>>,
     api |-> NoApi]

\* The tables as a request finds them: recorded with the request when calls run one
\* at a time (keep), so that its outcome can be compared with what it started from.
Snapshot(keep) ==
    IF keep THEN [invoices |-> invoices, source_files |-> source_files] ELSE NoSnapshot

\* The email handler when no message is being handled: its locals, the calls it has
\* made to the mail transport, the AI and the reply builders (calls), the bucket as
\* it was when insertInvoice was called (stored), the error it caught (error) and the
\* error it has thrown to the transport (thrown).
NoMail ==
    [pc |-> "idle", seq |-> 0, from |-> "", messageId |-> "", text |-> "", html |-> "",
     attachments |-> <<>>, attachmentData |-> <<>>, timestamp |-> "", bronzePaths |-> <<>>,
     conversion |-> [threw |-> FALSE, isArray |-> TRUE, results |-> <<>>],
     markdownFiles |-> <<>>, llm |-> Responds(<<>>), extraction |-> NoExtraction,
     sourceFiles |-> <<>>, stored |-> <<>>, error |-> NULL, replyMessage |-> NullV,
     replied |-> FALSE, thrown |-> NULL, calls |-> <<>>]

Init ==
    /\ invoices = {}
    /\ source_files = {}
    /\ seq_invoices = 0
    /\ seq_source_files = 0
    /\ now = 0
    /\ nops = 0
    /\ proc = [p \in Procs |-> Idle]
    /\ applied = {}
    /\ mail = NoMail
    /\ R2 = <<>>

\* Ids a request may name: every id ever assigned and one never assigned.
RequestIds == 1..(seq_invoices + 1)

Start(p, rec) ==
    /\ proc[p].pc \in {"idle", "done"}
    /\ nops < MaxOps
    /\ nops' = nops + 1
    /\ proc' = [proc EXCEPT ![p] = rec]
    /\ UNCHANGED <<invoices, source_files, seq_invoices, seq_source_files, now,
                   applied, mail, R2>>

\* A statement that evaluates datetime('now') reads t: the clock has stood still
\* since the last reading, or a second has passed.
ReadClock(t) ==
    /\ t \in now..MaxClock
    /\ t <= now + 1
    /\ now' = t

\* A step of worker p that only changes its own locals.
Local(p, rec) ==
    /\ proc' = [proc EXCEPT ![p] = rec]
    /\ UNCHANGED <<invoices, source_files, seq_invoices, seq_source_files, now, nops,
                   applied, mail, R2>>

Done(rec, http) == [rec EXCEPT !.pc = "done", !.http = http]
Threw(rec) == [rec EXCEPT !.pc = "done", !.threw = TRUE, !.http = 500]

(* ------------------------------ requests ------------------------------- *)
\* The email handler reaches insertInvoice(env.DB, messageId, extraction, sourceFiles).
CallInsert(p, extractions, keep) ==
    \E m \in MessageIds, e \in extractions, fs \in SourceFileLists :
        Start(p, [Idle EXCEPT !.pc = "insert", !.op = "insert", !.messageId = m,
                              !.extraction = e, !.sourceFiles = fs, !.pre = Snapshot(keep)])

\* GET /api/invoices/:id
CallGet(p, keep) ==
    \E id \in RequestIds :
        Start(p, [Idle EXCEPT !.pc = "select", !.op = "get", !.id = id, !.pre = Snapshot(keep)])

\* PATCH /api/invoices/:id, up to the call of updateInvoice
CallPatch(p, bodies, keep) ==
    \E id \in RequestIds, body \in bodies :
        Start(p, [Idle EXCEPT !.pc = "current", !.op = "patch", !.id = id, !.body = body,
                              !.updates = PatchUpdates(body), !.pre = Snapshot(keep)])

\* DELETE /api/invoices/:id
CallDelete(p, keep) ==
    \E id \in RequestIds :
        Start(p, [Idle EXCEPT !.pc = "lookup", !.op = "delete", !.id = id, !.pre = Snapshot(keep)])

\* markInvoiceAsPaid(db, id): one UPDATE, no route of the API calls it.
CallMarkPaid(p, keep) ==
    \E id \in RequestIds :
        Start(p, [Idle EXCEPT !.pc = "mark", !.op = "mark", !.id = id, !.pre = Snapshot(keep)])

(* ----------------------------- insertInvoice --------------------------- *)
\* INSERT INTO invoices ... RETURNING *
InsertInvoiceRow(p) ==
    \E t \in 0..MaxClock :
    LET me == proc[p]
        row == NewInvoiceRow(seq_invoices + 1, me.messageId, me.extraction, t)
    IN /\ me.pc = "insert"
       /\ ReadClock(t)
       /\ IF MessageIdUnique(invoices, me.messageId)
          THEN /\ invoices' = invoices \cup {row}
               /\ seq_invoices' = seq_invoices + 1
               /\ proc' = [proc EXCEPT ![p] =
                     IF Len(me.sourceFiles) > 0
                     THEN [me EXCEPT !.pc = "files", !.result = Val(row)]
                     ELSE Done([me EXCEPT !.result = Val(row)], 0)]
          ELSE /\ proc' = [proc EXCEPT ![p] = Threw(me)]
               /\ UNCHANGED <<invoices, seq_invoices>>
       /\ UNCHANGED <<source_files, seq_source_files, nops, applied, mail, R2>>

\* db.batch(statements): the source file rows, all or none
InsertSourceFiles(p) ==
    \E t \in 0..MaxClock :
    LET me == proc[p]
    IN /\ me.pc = "files"
       /\ ReadClock(t)
       /\ IF ForeignKeyHolds(invoices, me.messageId)
          THEN /\ source_files' = source_files \cup
                     NewSourceFileRows(seq_source_files, me.messageId, me.sourceFiles, t)
               /\ seq_source_files' = seq_source_files + Len(me.sourceFiles)
               /\ proc' = [proc EXCEPT ![p] = Done(me, 0)]
          ELSE /\ proc' = [proc EXCEPT ![p] = Threw(me)]
               /\ UNCHANGED <<source_files, seq_source_files>>
       /\ UNCHANGED <<invoices, seq_invoices, nops, applied, mail, R2>>

(* ----------------------------- getInvoiceById -------------------------- *)
\* SELECT * FROM invoices WHERE id = ?   (also the tail of updateInvoice)
SelectInvoice(p) ==
    LET me == proc[p]
        found == RowsWithId(invoices, me.id)
    IN /\ me.pc = "select"
       /\ Local(p, IF found = {}
                   THEN Done([me EXCEPT !.result = NullV], 404)
                   ELSE [me EXCEPT !.pc = "sources",
                                   !.invoice = Val(CHOOSE r \in found : TRUE)])

\* SELECT * FROM source_files WHERE message_id = ?
SelectSourceFiles(p) ==
    LET me == proc[p]
        files == ById({f \in source_files : f.message_id = me.invoice.val.message_id})
    IN /\ me.pc = "sources"
       /\ Local(p, Done([me EXCEPT !.result = Val(InvoiceDetail(me.invoice.val, files))],
                        200))

(* ----------------------------- updateInvoice --------------------------- *)
\* SELECT manually_edited_fields, status FROM invoices WHERE id = ?
SelectCurrent(p) ==
    LET me == proc[p]
        found == RowsWithId(invoices, me.id)
    IN /\ me.pc = "current"
       /\ Local(p, IF found = {}
                   THEN Done([me EXCEPT !.result = NullV], 404)
                   ELSE LET r == CHOOSE x \in found : TRUE
                        IN [me EXCEPT !.pc = "update",
                               !.currentInvoice =
                                   [manually_edited_fields |-> r.manually_edited_fields,
                                    status |-> r.status]])

\* UPDATE invoices SET ... WHERE id = ?
RunUpdate(p) ==
    \E t \in 0..MaxClock :
    LET me == proc[p]
        found == RowsWithId(invoices, me.id)
        rejected == /\ found # {}
                    /\ HasKey(me.updates, "status")
                    /\ ~StatusNotNull(Get(me.updates, "status"))
    IN /\ me.pc = "update"
       /\ ReadClock(t)
       /\ IF rejected
          THEN /\ proc' = [proc EXCEPT ![p] = Threw(me)]
               /\ UNCHANGED <<invoices, applied>>
          ELSE /\ invoices' = (invoices \ found) \cup
                     {UpdatedRow(r, me.currentInvoice, me.updates, t) : r \in found}
               /\ applied' = applied \cup
                     {<<r.id, k>> : r \in found, k \in KeySet(me.updates)}
               /\ proc' = [proc EXCEPT ![p] = [me EXCEPT !.pc = "select"]]
       /\ UNCHANGED <<source_files, seq_invoices, seq_source_files, nops, mail, R2>>

(* ----------------------------- deleteInvoice --------------------------- *)
\* Mutant: the lookup is skipped and the DELETE statements run for any id.
LookupSkipped(p) ==
    /\ proc[p].pc = "lookup"
    /\ Local(p, [proc[p] EXCEPT !.pc = "children"])

\* SELECT message_id FROM invoices WHERE id = ?
LookupMessageId(p) ==
    LET me == proc[p]
        found == RowsWithId(invoices, me.id)
    IN /\ me.pc = "lookup"
       /\ Local(p, IF found = {}
                   THEN Done([me EXCEPT !.success = FALSE], 404)
                   ELSE [me EXCEPT !.pc = "children",
                                   !.messageId = (CHOOSE r \in found : TRUE).message_id])

\* Mutant: the WHERE clause is missing and every source file is deleted.
DeleteEverySourceFile(p) ==
    LET me == proc[p]
    IN /\ me.pc = "children"
       /\ source_files' = {}
       /\ proc' = [proc EXCEPT ![p] = [me EXCEPT !.pc = "parent"]]
       /\ UNCHANGED <<invoices, seq_invoices, seq_source_files, now, nops, applied, mail, R2>>

\* DELETE FROM source_files WHERE message_id = ?
DeleteSourceFiles(p) ==
    LET me == proc[p]
    IN /\ me.pc = "children"
       /\ source_files' = {f \in source_files : f.message_id # me.messageId}
       /\ proc' = [proc EXCEPT ![p] = [me EXCEPT !.pc = "parent"]]
       /\ UNCHANGED <<invoices, seq_invoices, seq_source_files, now, nops, applied, mail, R2>>

\* DELETE FROM invoices WHERE id = ?
DeleteInvoiceRow(p) ==
    LET me == proc[p]
        found == RowsWithId(invoices, me.id)
    IN /\ me.pc = "parent"
       /\ IF \A r \in found : NoChildRows(source_files, r.message_id)
          THEN /\ invoices' = invoices \ found
               /\ applied' = {a \in applied : a[1] # me.id}
               /\ proc' = [proc EXCEPT ![p] = Done([me EXCEPT !.success = TRUE], 200)]
          ELSE /\ proc' = [proc EXCEPT ![p] = Threw(me)]
               /\ UNCHANGED <<invoices, applied>>
       /\ UNCHANGED <<source_files, seq_invoices, seq_source_files, now, nops, mail, R2>>

(* --------------------------- markInvoiceAsPaid ------------------------- *)
\* UPDATE invoices SET status = 'paid', paid_at = datetime('now') WHERE id = ?
MarkedPaid(row, t) == [row EXCEPT !.status = "paid", !.paid_at = DateTime(t)]

RunMarkPaid(p) ==
    \E t \in 0..MaxClock :
    LET me == proc[p]
        found == RowsWithId(invoices, me.id)
    IN /\ me.pc = "mark"
       /\ ReadClock(t)
       /\ invoices' = (invoices \ found) \cup {MarkedPaid(r, t) : r \in found}
       /\ proc' = [proc EXCEPT ![p] = Done([me EXCEPT !.success = TRUE], 0)]
       /\ UNCHANGED <<source_files, seq_invoices, seq_source_files, nops, applied, mail, R2>>

(* --------------------------- the email handler ------------------------- *)
\* generateReplyEmail and generateErrorReplyEmail: the message built for the sender.
SummaryReply(to, extraction) == [kind |-> "summary", to |-> to, extraction |-> extraction]
ErrorReply(to, errorMsg) == [kind |-> "error", to |-> to, errorMsg |-> errorMsg]

\* Mutant: the catch block builds no reply.
CatchSilently(m, error, built) ==
    [m EXCEPT !.pc = "finally", !.error = error]

\* Mutant: the failure is logged and the handler goes on to the insert.
CatchAndGoOn(m, error, built) ==
    [m EXCEPT !.pc = "insert", !.error = error]

\* Mutant: the catch block sends the error reply itself, and finally sends it again.
CatchAndReply(m, error, built) ==
    [m EXCEPT !.pc = "finally", !.error = error,
              !.calls = @ \o <<"generateErrorReplyEmail", "reply">>,
              !.replyMessage = Val(ErrorReply(m.from, error))]

\* catch (error): the error reply is built (or building it throws, which is logged),
\* and the error is thrown again once the finally block has run.
Catch(m, error, built) ==
    [m EXCEPT !.pc = "finally", !.error = error,
              !.calls = Append(@, "generateErrorReplyEmail"),
              !.replyMessage = IF built THEN Val(ErrorReply(m.from, error)) ELSE NullV]

\* Mutant: a failure of message.reply is thrown in place of the caught error.
FinallyThrowsSendError(m, sent) ==
    IF m.replyMessage.isNull THEN [m EXCEPT !.pc = "done", !.thrown = m.error]
    ELSE [m EXCEPT !.pc = "done", !.calls = Append(@, "reply"), !.replied = sent,
                   !.thrown = IF sent THEN m.error ELSE "reply failed"]

\* finally: the reply, if one was built, is sent (a failure to send is logged); then
\* the handler returns, or throws the error it caught.
Finally(m, sent) ==
    IF m.replyMessage.isNull THEN [m EXCEPT !.pc = "done", !.thrown = m.error]
    ELSE [m EXCEPT !.pc = "done", !.calls = Append(@, "reply"), !.replied = sent,
                   !.thrown = m.error]

\* Mutant: every sender is accepted.
SenderUnchecked(fromAddress) == TRUE

\* allowedSenders.includes(fromAddress)
SenderAllowed(fromAddress) == fromAddress \in AllowedSenders

\* The tables, the workers and the history of the database, which the handler leaves
\* alone except through insertInvoice.
database == <<invoices, source_files, seq_invoices, seq_source_files, nops, proc, applied>>

\* email(message, env, ctx) is called: the message is parsed.
Receive(messages) ==
    \E message \in messages :
        /\ mail.pc \in {"idle", "done"}
        /\ mail.seq < MaxMails
        /\ mail' = [NoMail EXCEPT !.pc = "validate", !.seq = mail.seq + 1,
                                  !.from = message.from, !.messageId = message.messageId,
                                  !.text = message.text, !.html = message.html,
                                  !.attachments = message.attachments]
        /\ UNCHANGED <<database, now, R2>>

\* Step 1: a sender that is not allowed is rejected and the handler returns.
ValidateSender ==
    /\ mail.pc = "validate"
    /\ mail' = IF SenderAllowed(mail.from) THEN [mail EXCEPT !.pc = "bronze"]
               ELSE [mail EXCEPT !.pc = "done", !.calls = Append(@, "setReject")]
    /\ UNCHANGED <<database, now, R2>>

\* Step 2: the timestamp is generated and the bronze layer written; the put of any
\* object may fail, after the objects before it have been stored.
PersistBronze ==
    \E t \in 0..MaxClock, built \in BOOLEAN :
    LET attachmentData == processAttachments(mail.attachments)
        timestamp == generateTimestamp(t)
        objects == BronzeObjects(timestamp, mail.messageId, mail.from, attachmentData)
        m == [mail EXCEPT !.timestamp = timestamp, !.attachmentData = attachmentData]
    IN /\ mail.pc = "bronze"
       /\ ReadClock(t)
       /\ \E n \in 0..Len(objects) :
            /\ R2' = PutAll(R2, SubSeq(objects, 1, n))
            /\ mail' = IF n = Len(objects)
                       THEN [m EXCEPT !.pc = "convert", !.bronzePaths = PathsOf(objects)]
                       ELSE Catch(m, "bronze put failed", built)
       /\ UNCHANGED database

\* Step 3: the documents are converted in one call of ai.toMarkdown.
Convert(formats) ==
    LET documents == MarkdownDocuments(mail.text, mail.html, mail.attachmentData)
    IN /\ mail.pc = "convert"
       /\ \E outcome \in ToMarkdownOutcomes(documents, formats) :
            mail' = [mail EXCEPT
                       !.pc = "silver",
                       !.conversion = outcome,
                       !.calls = IF Len(documents) = 0 THEN @ ELSE Append(@, "toMarkdown"),
                       !.markdownFiles =
                           processEmailAndAttachmentsToMarkdown(
                               outcome, mail.text, mail.html, mail.attachmentData)]
       /\ UNCHANGED <<database, now, R2>>

\* The silver layer is written, one object per markdown file.
PersistSilver ==
    \E built \in BOOLEAN :
    LET objects == SilverObjects(mail.timestamp, mail.messageId, mail.markdownFiles)
    IN /\ mail.pc = "silver"
       /\ \E n \in 0..Len(objects) :
            /\ R2' = PutAll(R2, SubSeq(objects, 1, n))
            /\ mail' = IF n = Len(objects) THEN [mail EXCEPT !.pc = "extract"]
                       ELSE Catch(mail, "silver put failed", built)
       /\ UNCHANGED <<database, now>>

\* Step 4: the LLM extracts the invoice.
Extract(outcomes) ==
    /\ mail.pc = "extract"
    /\ \E outcome \in outcomes :
         mail' = [mail EXCEPT !.pc = "gold", !.llm = outcome, !.calls = Append(@, "run"),
                              !.extraction = extractInvoiceInfo(outcome, mail.markdownFiles)]
    /\ UNCHANGED <<database, now, R2>>

\* Mutant: the gold layer is not written.
PersistGoldSkipped ==
    /\ mail.pc = "gold"
    /\ mail' = [mail EXCEPT !.pc = "insert"]
    /\ UNCHANGED <<database, now, R2>>

\* The gold layer is written.
PersistGold ==
    \E stored \in BOOLEAN, built \in BOOLEAN :
    /\ mail.pc = "gold"
    /\ R2' = IF stored
             THEN Put(R2, GoldObject(mail.timestamp, mail.messageId, mail.extraction))
             ELSE R2
    /\ mail' = IF stored THEN [mail EXCEPT !.pc = "insert"]
               ELSE Catch(mail, "gold put failed", built)
    /\ UNCHANGED <<database, now>>

\* The source files of the record: the markdown files but the email body, each with
\* the bronze path that ends with its filename ('' if there is none).
SourceFilesOf(markdownFiles, bronzePaths) ==
    LET files == SelectSeq(markdownFiles, LAMBDA f : f.filename # "email-body")
        found(f) == {i \in 1..Len(bronzePaths) : PathEndsWith(bronzePaths[i], f.filename)}
    IN [i \in 1..Len(files) |->
          [filename |-> files[i].filename,
           blob_uri |-> IF found(files[i]) = {} THEN ""
                        ELSE Join(bronzePaths[Min(found(files[i]))])]]

\* insertInvoice(env.DB, messageId, extraction, sourceFiles) is called; its statements
\* are the steps InsertInvoiceRow and InsertSourceFiles of the worker.
CallInsertInvoice ==
    /\ mail.pc = "insert"
    /\ mail' = [mail EXCEPT !.pc = "db", !.stored = R2, !.calls = Append(@, "insertInvoice"),
                            !.sourceFiles = SourceFilesOf(mail.markdownFiles, mail.bronzePaths)]
    /\ proc' = [proc EXCEPT !["w1"] =
                  [Idle EXCEPT !.pc = "insert", !.op = "insert", !.messageId = mail.messageId,
                               !.extraction = mail.extraction,
                               !.sourceFiles =
                                   SourceFilesOf(mail.markdownFiles, mail.bronzePaths)]]
    /\ UNCHANGED <<invoices, source_files, seq_invoices, seq_source_files, nops, applied,
                   now, R2>>

\* insertInvoice has returned or thrown.  Step 5: the summary reply is built.
AfterInsert ==
    \E built \in BOOLEAN :
    /\ mail.pc = "db"
    /\ proc["w1"].pc = "done"
    /\ mail' = IF proc["w1"].threw THEN Catch(mail, "insert failed", built)
               ELSE [mail EXCEPT !.pc = "finally",
                                 !.calls = Append(@, "generateReplyEmail"),
                                 !.replyMessage =
                                     Val(SummaryReply(mail.from, mail.extraction))]
    /\ UNCHANGED <<database, now, R2>>

\* The finally block: message.reply(replyMessage) succeeds or fails.
SendReply ==
    \E sent \in BOOLEAN :
    /\ mail.pc = "finally"
    /\ mail' = Finally(mail, sent)
    /\ UNCHANGED <<database, now, R2>>

(* ----------------------------- getAllInvoices -------------------------- *)
\* parseInt of a query parameter
parseInt(s) == CASE s = "0" -> 0 [] s = "1" -> 1 [] s = "2" -> 2 [] s = "3" -> 3

\* limit ? parseInt(limit) : undefined
OptionalInt(param) == IF JsFalsy(param) THEN NullV ELSE Val(parseInt(param))

\* The options the list route hands to getAllInvoices.
ListOptions(unpaidOnly, limit, offset) ==
    [unpaidOnly |-> (unpaidOnly = "true"),
     limit |-> OptionalInt(limit),
     offset |-> OptionalInt(offset)]

\* if (options?.limit), if (options?.offset): undefined and 0 are falsy
Given(n) == ~n.isNull /\ n.val # 0

\* The position of a datetime on the clock; SQLite compares the texts.
SecondOf(datetime) == CHOOSE n \in 0..MaxClock : DateTime(n) = datetime

\* ORDER BY created_at DESC: every order of the rows with no later row after an
\* earlier one; rows of the same second come in any order.
DescOrders(rows) ==
    {o \in [1..Cardinality(rows) -> rows] :
        /\ \A i, j \in 1..Cardinality(rows) : i # j => o[i] # o[j]
        /\ \A i, j \in 1..Cardinality(rows) :
              i < j => SecondOf(o[i].created_at) >= SecondOf(o[j].created_at)}

\* The columns of the SELECT, manually_edited_fields parsed.
InvoiceListItem(row) ==
    [id |-> row.id, message_id |-> row.message_id, supplier |-> row.supplier,
     amount |-> row.amount, currency |-> row.currency,
     account_balance |-> row.account_balance, invoice_id |-> row.invoice_id,
     last_payment_date |-> row.last_payment_date, status |-> row.status,
     paid_at |-> row.paid_at, created_at |-> row.created_at,
     manually_edited_fields |-> parseManuallyEditedFields(row.manually_edited_fields)]

\* WHERE status = 'unpaid', if options.unpaidOnly
WhereUnpaid(rows, options) ==
    IF options.unpaidOnly THEN {r \in rows : r.status = "unpaid"} ELSE rows

\* LIMIT n, and OFFSET k inside it: both are left out of the query without a limit.
LimitOffset(order, options) ==
    IF Given(options.limit)
    THEN LET skip == IF Given(options.offset) THEN options.offset.val ELSE 0
         IN SubSeq(order, skip + 1, Min({Len(order), skip + options.limit.val}))
    ELSE order

\* GET /api/invoices?unpaidOnly&limit&offset
CallList(p) ==
    /\ proc[p].pc \in {"idle", "done"}
    /\ \E unpaidOnly \in {NULL, "true", "1"}, limit \in {NULL, "", "0", "1", "2"},
          offset \in {NULL, "0", "1", "2"} :
         Local(p, [Idle EXCEPT !.pc = "list", !.op = "list",
                               !.options = ListOptions(unpaidOnly, limit, offset)])

\* getAllInvoices(db, options): one SELECT
GetAllInvoices(p) ==
    LET me == proc[p]
    IN /\ me.pc = "list"
       /\ \E order \in DescOrders(WhereUnpaid(invoices, me.options)) :
            LET results == LimitOffset(order, me.options)
            IN Local(p, Done([me EXCEPT
                                !.rows = [i \in 1..Len(results) |->
                                             InvoiceListItem(results[i])]], 200))

(* ------------------------------ the system ----------------------------- *)
Step(p, extractions, bodies, keep) ==
    \/ CallInsert(p, extractions, keep) \/ CallGet(p, keep) \/ CallPatch(p, bodies, keep)
    \/ CallDelete(p, keep) \/ CallMarkPaid(p, keep)
    \/ InsertInvoiceRow(p) \/ InsertSourceFiles(p)
    \/ SelectInvoice(p) \/ SelectSourceFiles(p)
    \/ SelectCurrent(p) \/ RunUpdate(p)
    \/ LookupMessageId(p) \/ DeleteSourceFiles(p) \/ DeleteInvoiceRow(p)
    \/ RunMarkPaid(p)

\* Requests and ingestions run concurrently, interleaved at their awaits.
Next == \E p \in Procs : Step(p, RaceExtractions, RaceBodies, FALSE)

Spec == Init /\ [][Next]_vars

\* Calls executed one at a time: a single worker.
NextSeq == \E p \in SeqProcs : Step(p, Extractions, Bodies, TRUE)

SpecSeq == Init /\ [][NextSeq]_vars

\* The list route: one worker ingests invoices, marks them paid and lists them.
NextList ==
    \/ CallInsert("w1", RaceExtractions, FALSE) \/ InsertInvoiceRow("w1")
    \/ InsertSourceFiles("w1")
    \/ CallMarkPaid("w1", FALSE) \/ RunMarkPaid("w1")
    \/ CallList("w1") \/ GetAllInvoices("w1")

SpecList == Init /\ [][NextList]_vars

\* PATCH requests whose bodies hold keys that are no editable field: request.json()
\* is not validated.  One worker ingests invoices and patches them.
ForeignBodies ==
    { <<<<"supplier", "Acme Ltd">>>>,
      <<<<"notes", "checked">>>>,
      <<<<"message_id", "<z@mail>">>, <<"supplier", "Acme Ltd">>>>,
      <<<<"paid", JsTrue>>>> }

NextPatch ==
    \/ CallInsert("w1", RaceExtractions, TRUE) \/ InsertInvoiceRow("w1")
    \/ InsertSourceFiles("w1")
    \/ CallPatch("w1", ForeignBodies, TRUE) \/ SelectCurrent("w1") \/ RunUpdate("w1")
    \/ SelectInvoice("w1") \/ SelectSourceFiles("w1")

SpecPatch == Init /\ [][NextPatch]_vars

(* --------------------------- verifyAccessJWT --------------------------- *)
TeamName == "team"

\* `https://${teamName}.cloudflareaccess.com`
ExpectedIssuer(teamName) == "https://" \o teamName \o ".cloudflareaccess.com"

\* The leeway, in seconds, allowed to a token issued in the future.
ClockSkewLeeway == 60

\* A token: the characters of the header value, whether its header and payload
\* decode (base64url, JSON), the payload's exp, iat, iss and email, and whether the
\* signature is the one the issuer's key gives for the header and payload.
Jwt(text, decodes, exp, iat, iss, signed) ==
    [text |-> text, decodes |-> decodes, exp |-> exp, iat |-> iat, iss |-> iss,
     email |-> "owner@mail", signed |-> signed]

ThreeParts == <<"h", ".", "p", ".", "s">>
TwoParts == <<"h", ".", "p">>

\* A token valid up to the first second and the ways it can be wrong; the second
\* one has expired once a second has passed.
GoodJwt == Jwt(ThreeParts, TRUE, MaxClock, 0, ExpectedIssuer(TeamName), TRUE)
Jwts ==
    { GoodJwt,
      Jwt(ThreeParts, TRUE, 0, 0, ExpectedIssuer(TeamName), TRUE),
      Jwt(ThreeParts, TRUE, MaxClock, MaxClock + ClockSkewLeeway + 1,
          ExpectedIssuer(TeamName), TRUE),
      Jwt(ThreeParts, TRUE, MaxClock, 0, ExpectedIssuer("other"), TRUE),
      Jwt(ThreeParts, TRUE, MaxClock, 0, ExpectedIssuer(TeamName), FALSE),
      Jwt(ThreeParts, FALSE, 0, 0, "", FALSE),
      Jwt(TwoParts, FALSE, 0, 0, "", FALSE),
      Jwt(<<>>, FALSE, 0, 0, "", FALSE) }

\* request.headers.get('Cf-Access-Jwt-Assertion'): null when the header is absent.
JwtHeaders == {NullV} \cup {Val(jwt) : jwt \in Jwts}

\* What getPublicKey gives: the key of the token's kid, null (the certificates
\* could not be fetched, or hold no such key), or an exception of the fetch.
PublicKeys == {"key", NULL, "throws"}

\* jwt.split('.').length
RECURSIVE SplitLength(_)
SplitLength(text) ==
    IF text = <<>> THEN 1
    ELSE (IF Head(text) = "." THEN 1 ELSE 0) + SplitLength(Tail(text))

AuthFailed(error) == [authenticated |-> FALSE, email |-> NULL, error |-> error]

\* verifyAccessJWT(request, teamName) at the second nowSeconds, no audience expected.
verifyAccessJWT(jwt, teamName, nowSeconds, publicKey) ==
    IF jwt.isNull \/ jwt.val.text = <<>>
    THEN AuthFailed("Missing Cf-Access-Jwt-Assertion header")
    ELSE IF SplitLength(jwt.val.text) # 3 THEN AuthFailed("Invalid JWT format")
    ELSE IF ~jwt.val.decodes THEN AuthFailed("JWT verification failed")
    ELSE IF jwt.val.exp < nowSeconds THEN AuthFailed("JWT has expired")
    ELSE IF jwt.val.iat > nowSeconds + ClockSkewLeeway
         THEN AuthFailed("JWT issued in the future")
    ELSE IF jwt.val.iss # ExpectedIssuer(teamName)
         THEN AuthFailed("Invalid issuer: " \o jwt.val.iss)
    ELSE IF publicKey = "throws" THEN AuthFailed("JWT verification failed")
    ELSE IF publicKey = NULL THEN AuthFailed("Could not fetch public key")
    ELSE IF ~jwt.val.signed THEN AuthFailed("Invalid signature")
    ELSE [authenticated |-> TRUE, email |-> jwt.val.email, error |-> NULL]

(* --------------------------- handleApiRequest -------------------------- *)
\* The requests made of the API, as method and path: the preflight, the five routes
\* and a path that is no route.
ApiRequests ==
    { <<"OPTIONS", "/api/invoices/:id">>, <<"GET", "/api/invoices">>,
      <<"GET", "/api/invoices/:id">>, <<"PATCH", "/api/invoices/:id">>,
      <<"DELETE", "/api/invoices/:id">>, <<"GET", "/api/files/*">>,
      <<"GET", "/api/health">> }
Environments == {"development", "production"}

\* The objects and rows of one ingested message: an invoice sent by the owner as
\* the attachment a.pdf, without a covering note.
StoredBronze ==
    BronzeObjects(generateTimestamp(0), "<a@mail>", "owner@mail", processAttachments(<<PdfA>>))
StoredMarkdown == <<Doc("a.pdf", "Invoice INV-1")>>
StoredObjects ==
    StoredBronze \o SilverObjects(generateTimestamp(0), "<a@mail>", StoredMarkdown)
                 \o <<GoldObject(generateTimestamp(0), "<a@mail>", FullExtraction)>>
StoredSourceFiles == SourceFilesOf(StoredMarkdown, PathsOf(StoredBronze))

\* Paths asked of /api/files/: an object of the bucket and one it does not hold.
FilePaths ==
    { getBronzePath(generateTimestamp(0), "<a@mail>", "a.pdf"),
      getBronzePath(generateTimestamp(0), "<b@mail>", "a.pdf") }

ApiBodies == { <<<<"status", "paid">>>>, <<<<"supplier", "Acme Ltd">>>> }

ApiListOptions == { ListOptions(NULL, NULL, NULL), ListOptions("true", "1", NULL) }

RejectsNothing(isDev, authResult) == FALSE

\* if (!isDev && !authResult.authenticated): the request is answered 401
Rejects(isDev, authResult) == ~isDev /\ ~authResult.authenticated

\* The route the method and path select, up to the first call it makes.
Route(received, id, body, filePath, options) ==
    LET method == received.api.request.method
        route == received.api.request.route
    IN CASE route = "/api/invoices" /\ method = "GET" ->
              [received EXCEPT !.pc = "list", !.op = "list", !.options = options]
         [] route = "/api/invoices/:id" /\ method = "GET" ->
              [received EXCEPT !.pc = "select", !.op = "get", !.id = id]
         [] route = "/api/invoices/:id" /\ method = "PATCH" ->
              [received EXCEPT !.pc = "current", !.op = "patch", !.id = id,
                               !.body = body, !.updates = PatchUpdates(body)]
         [] route = "/api/invoices/:id" /\ method = "DELETE" ->
              [received EXCEPT !.pc = "lookup", !.op = "delete", !.id = id]
         [] route = "/api/files/*" /\ method = "GET" ->
              [received EXCEPT !.pc = "file", !.op = "file", !.api.filePath = filePath]
         [] OTHER -> Done(received, 404)

\* handleApiRequest(request, env, path, url), up to the first call of its route
HandleApiRequest(p, keep) ==
    \E called \in ApiRequests, jwt \in JwtHeaders, environment \in Environments,
       publicKey \in PublicKeys :
        LET method == called[1]
            route == called[2]
            request == [method |-> method, route |-> route, jwt |-> jwt]
            preflight == [Idle EXCEPT !.api.request = request,
                                      !.api.environment = environment,
                                      !.pre = Snapshot(keep)]
            isDev == environment = "development"
            authResult == verifyAccessJWT(jwt, TeamName, now, publicKey)
            received == [preflight EXCEPT !.api.authResult = authResult]
        IN IF method = "OPTIONS" THEN Start(p, Done(preflight, 200))
           ELSE IF Rejects(isDev, authResult) THEN Start(p, Done(received, 401))
           ELSE \E id \in (IF route = "/api/invoices/:id" THEN RequestIds ELSE {0}),
                   body \in (IF method = "PATCH" THEN ApiBodies ELSE {<<>>}),
                   filePath \in (IF route = "/api/files/*" THEN FilePaths ELSE {<<>>}),
                   options \in (IF route = "/api/invoices" THEN ApiListOptions
                                ELSE {NoOptions}) :
                    Start(p, Route(received, id, body, filePath, options))

\* serveFileFromR2(env.R2, filePath): one r2.get
ServeFileFromR2(p) ==
    LET me == proc[p]
    IN /\ me.pc = "file"
       /\ Local(p, IF me.api.filePath \in DOMAIN R2
                   THEN Done([me EXCEPT !.api.object = Val(R2[me.api.filePath])], 200)
                   ELSE Done(me, 404))

\* The API after one message was ingested: its record, its source file and its
\* objects are there, and one client makes requests.
InitApi ==
    /\ invoices = {NewInvoiceRow(1, "<a@mail>", FullExtraction, 0)}
    /\ source_files = NewSourceFileRows(0, "<a@mail>", StoredSourceFiles, 0)
    /\ seq_invoices = 1
    /\ seq_source_files = Len(StoredSourceFiles)
    /\ now = 0
    /\ nops = 0
    /\ proc = [p \in Procs |-> Idle]
    /\ applied = {}
    /\ mail = NoMail
    /\ R2 = PutAll(<<>>, StoredObjects)

NextApi ==
    \/ HandleApiRequest("w1", TRUE)
    \/ GetAllInvoices("w1")
    \/ SelectInvoice("w1") \/ SelectSourceFiles("w1")
    \/ SelectCurrent("w1") \/ RunUpdate("w1")
    \/ LookupMessageId("w1") \/ DeleteSourceFiles("w1") \/ DeleteInvoiceRow("w1")
    \/ ServeFileFromR2("w1")

SpecApi == InitApi /\ [][NextApi]_vars

(* ------------------------------ ingestion ------------------------------ *)
\* The conversion in the runs of the whole handler: the call throws, or converts
\* every document.
MailFormats == {"markdown"}

\* Messages are handled one after the other, each from its arrival to the reply.
NextIngest ==
    \/ Receive(Inbox)
    \/ ValidateSender
    \/ PersistBronze
    \/ Convert(MailFormats)
    \/ PersistSilver
    \/ Extract(MailLlmOutcomes)
    \/ PersistGold
    \/ CallInsertInvoice
    \/ InsertInvoiceRow("w1")
    \/ InsertSourceFiles("w1")
    \/ AfterInsert
    \/ SendReply

SpecIngest == Init /\ [][NextIngest]_vars

\* Messages whose attachments share a filename, have none, or are named like a
\* document the handler stores itself.
PdfACopy == Att("a.pdf", "application/pdf", "bytes of another a.pdf")
NamedMetadata == Att("metadata.json", "application/json", "bytes of a metadata.json")
NamedBody == Att("email-body", "text/plain", "bytes of a note")
AttachInbox ==
    { Message("owner@mail", "<a@mail>", "Please pay", "", <<PdfA, NoName>>),
      Message("owner@mail", "<a@mail>", "Please pay", "", <<PdfA, PdfACopy>>),
      Message("owner@mail", "<b@mail>", "", "", <<NamedBody>>) }

\* The handler on those messages.
NextAttach ==
    \/ Receive(AttachInbox)
    \/ ValidateSender
    \/ PersistBronze
    \/ Convert(MailFormats)
    \/ PersistSilver
    \/ Extract({LlmThrows, Responds(GoodResponse)})
    \/ PersistGold
    \/ CallInsertInvoice
    \/ InsertInvoiceRow("w1")
    \/ InsertSourceFiles("w1")
    \/ AfterInsert
    \/ SendReply

SpecAttach == Init /\ [][NextAttach]_vars

\* persistToBronzeLayer alone: the handler is about to call it for a message with
\* up to MaxAttachments attachments of any of those names.
BronzeAttachmentLists ==
    UNION { [1..n -> {PdfA, PdfACopy, NoName, NamedMetadata}] : n \in 0..MaxAttachments }

InitBronze ==
    /\ invoices = {}
    /\ source_files = {}
    /\ seq_invoices = 0
    /\ seq_source_files = 0
    /\ now = 0
    /\ nops = 0
    /\ proc = [p \in Procs |-> Idle]
    /\ applied = {}
    /\ R2 = <<>>
    /\ \E atts \in BronzeAttachmentLists :
         mail = [NoMail EXCEPT !.pc = "bronze", !.seq = 1, !.from = "owner@mail",
                               !.messageId = "<a@mail>", !.text = "Please pay",
                               !.attachments = atts]

NextBronze == PersistBronze

SpecBronze == InitBronze /\ [][NextBronze]_vars

\* extractInvoiceInfo alone: the handler is about to call it with some documents,
\* and the LLM gives any answer of up to MaxTokens tokens.
InitExtract ==
    /\ invoices = {}
    /\ source_files = {}
    /\ seq_invoices = 0
    /\ seq_source_files = 0
    /\ now = 0
    /\ nops = 0
    /\ proc = [p \in Procs |-> Idle]
    /\ applied = {}
    /\ R2 = <<>>
    /\ \E docs \in DocumentLists :
         mail = [NoMail EXCEPT !.pc = "extract", !.seq = 1, !.from = "owner@mail",
                               !.messageId = "<a@mail>", !.markdownFiles = docs]

NextExtract == Extract(LlmOutcomes)

SpecExtract == InitExtract /\ [][NextExtract]_vars

\* processEmailAndAttachmentsToMarkdown alone: the handler is about to call it with
\* an email body (text, HTML, both or none) and up to MaxAttachments attachments.
ConvertNames == {"a.pdf", "b 1.png", "unnamed"}
ConvertAttachmentLists ==
    UNION { [1..n -> {[filename |-> f, contentType |-> "application/pdf",
                       data |-> "bytes of " \o f] : f \in ConvertNames}] :
            n \in 0..MaxAttachments }

InitConvert ==
    /\ invoices = {}
    /\ source_files = {}
    /\ seq_invoices = 0
    /\ seq_source_files = 0
    /\ now = 0
    /\ nops = 0
    /\ proc = [p \in Procs |-> Idle]
    /\ applied = {}
    /\ R2 = <<>>
    /\ \E text \in {"", "Please pay"}, html \in {"", "<p>Please pay</p>"},
          atts \in ConvertAttachmentLists :
         mail = [NoMail EXCEPT !.pc = "convert", !.seq = 1, !.from = "owner@mail",
                               !.messageId = "<a@mail>", !.text = text, !.html = html,
                               !.attachmentData = atts]

NextConvert == Convert(ConversionFormats)

SpecConvert == InitConvert /\ [][NextConvert]_vars

(* ======================================================================= *)
(* Properties                                                              *)
(* ======================================================================= *)
\* The single worker of the one-at-a-time runs, and the request it has finished.
Me == proc["w1"]
Finished(op) == Me.op = op /\ Me.pc = "done"

\* The row the finished request named, as it was when the request started.
PreRows == RowsWithId(Me.pre.invoices, Me.id)
PreRow == CHOOSE r \in PreRows : TRUE
\* The same row now.
NowRows == RowsWithId(invoices, Me.id)
NowRow == CHOOSE r \in NowRows : TRUE

EditedNames(row) ==
    LET parsed == parseManuallyEditedFields(row.manually_edited_fields)
    IN IF parsed.isNull THEN {} ELSE Range(parsed.val)

\* C1: whenever calls run one at a time, every invoice record has status 'paid'
\* exactly when its paid_at is not null.
C1_PaidIffPaidAt ==
    \A r \in invoices : (r.status = "paid") <=> (r.paid_at # NULL)

\* A record that was paid when an update started is no longer paid after it, and its
\* paid_at has been cleared.
C1_Witness ==
    /\ Finished("patch") /\ Me.http = 200
    /\ PreRows # {} /\ PreRow.status = "paid" /\ PreRow.paid_at # NULL
    /\ NowRow.status = "unpaid" /\ NowRow.paid_at = NULL

\* C2: an update of an existing record with a payload over the editable fields
\* returns a record whose manually_edited_fields holds every name it held before and
\* every key of the payload, and whose column for each key is the payload's value,
\* an explicit null included; a key whose value equals the current one is added too.
C2_UpdateMergesAndAssigns ==
    (Finished("patch") /\ PreRows # {} /\ IsInvoiceUpdateRequest(Me.updates))
    => /\ Me.http = 200 /\ ~Me.threw
       /\ ~Me.result.isNull
       /\ ~Me.result.val.manually_edited_fields.isNull
       /\ EditedNames(PreRow) \cup KeySet(Me.updates)
              \subseteq Range(Me.result.val.manually_edited_fields.val)
       /\ \A k \in KeySet(Me.updates) :
              /\ Me.result.val[k] = Get(Me.updates, k)
              /\ NowRow[k] = Get(Me.updates, k)

\* An update confirms the supplier the record already has, on a record with earlier
\* edits: the supplier is added to the edited fields and the earlier ones are kept.
C2_Witness ==
    /\ Finished("patch") /\ Me.http = 200
    /\ HasKey(Me.updates, "supplier")
    /\ PreRows # {} /\ PreRow.supplier = Get(Me.updates, "supplier")
    /\ EditedNames(PreRow) # {} /\ "supplier" \notin EditedNames(PreRow)
    /\ "supplier" \in EditedNames(NowRow)

\* The columns of an invoice row other than manually_edited_fields.
OtherColumns == {"id", "message_id", "supplier", "amount", "currency", "account_balance",
                 "invoice_id", "account_to_pay_IBAN", "account_to_pay_BIC",
                 "account_to_pay_REG", "account_to_pay_ACCOUNT_NUMBER", "last_payment_date",
                 "items_json", "paid", "status", "paid_at", "created_at"}

\* C3 as claimed: an update with the empty payload raises no error and leaves every
\* column of the record, manually_edited_fields included (also when it was null), as
\* it was.
C3_EmptyUpdateChangesNothing ==
    (Finished("patch") /\ PreRows # {} /\ Me.updates = <<>>)
    => /\ ~Me.threw
       /\ invoices = Me.pre.invoices
       /\ source_files = Me.pre.source_files

\* C3: an update with the empty payload raises no error, leaves every other column
\* of the record as it was, and leaves manually_edited_fields as it was when that
\* was not null; a null manually_edited_fields becomes the empty list.
C3_EmptyUpdateKeepsColumns ==
    (Finished("patch") /\ PreRows # {} /\ Me.updates = <<>>)
    => /\ ~Me.threw /\ Me.http = 200
       /\ NowRows # {}
       /\ \A c \in OtherColumns : NowRow[c] = PreRow[c]
       /\ NowRow.manually_edited_fields =
             IF PreRow.manually_edited_fields.isNull THEN Val(JSONstringify(<<>>))
             ELSE PreRow.manually_edited_fields
       /\ invoices \ NowRows = Me.pre.invoices \ PreRows
       /\ source_files = Me.pre.source_files

\* An empty update of a record that already has edited fields.
C3_Witness ==
    /\ Finished("patch") /\ Me.http = 200 /\ Me.updates = <<>>
    /\ PreRows # {} /\ EditedNames(PreRow) # {}
    /\ NowRow = PreRow

\* What getInvoiceById returns for the row just inserted.
InsertedDetail ==
    LET row == CHOOSE r \in RowsWithId(invoices, Me.result.val.id) : TRUE
    IN InvoiceDetail(row, ById({f \in source_files : f.message_id = row.message_id}))

\* C4 as claimed: getInvoiceById right after insertInvoice(m, E, S) returns E's fields
\* exactly (amount 0 included) and source files with the filenames and blob_uris of S.
C4_InsertRoundTrip ==
    (Finished("insert") /\ ~Me.threw)
    => LET d == InsertedDetail
           e == Me.extraction
       IN /\ d.supplier = e.supplier
          /\ d.amount = e.amount
          /\ d.currency = e.currency
          /\ d.invoice_id = e.invoiceId
          /\ d.account_to_pay_IBAN = e.accountIBAN
          /\ d.account_to_pay_BIC = e.accountBIC
          /\ d.account_to_pay_REG = e.accountREG
          /\ d.account_to_pay_ACCOUNT_NUMBER = e.accountNumber
          /\ d.last_payment_date = e.lastPaymentDate
          /\ [i \in 1..Len(d.source_files) |->
                 File(d.source_files[i].filename, d.source_files[i].blob_uri)]
             = Me.sourceFiles

\* The worker that takes the step, when it runs the INSERT of insertInvoice.
RunsInsert(p) == proc[p].pc = "insert" /\ proc'[p] # proc[p]

\* C5: in every state, also of concurrent ingestions, no two invoice records share a
\* message_id; and an INSERT for a message_id that already has a record fails: it
\* ends insertInvoice with an error, adds no invoice record and no source file.
C5_OneRecordPerMessage ==
    /\ [](\A r1, r2 \in invoices : r1.message_id = r2.message_id => r1 = r2)
    /\ [][\A p \in Procs :
            (RunsInsert(p) /\ \E r \in invoices : r.message_id = proc[p].messageId)
            => /\ proc'[p].pc = "done" /\ proc'[p].threw
               /\ invoices' = invoices
               /\ source_files' = source_files]_vars

\* Two ingestions of one message_id overlap: one has inserted the record and is about
\* to insert its source files, the other has been rejected.
C5_Witness ==
    \E p, q \in Procs :
        /\ p # q
        /\ proc[p].op = "insert" /\ proc[p].pc = "files"
        /\ proc[q].op = "insert" /\ proc[q].pc = "done" /\ proc[q].threw
        /\ proc[q].messageId = proc[p].messageId
        /\ proc[q].sourceFiles # <<>>
        /\ Cardinality({r \in invoices : r.message_id = proc[p].messageId}) = 1

\* C6: in every state, the intermediate states of insertInvoice and deleteInvoice and
\* all their interleavings included, each source file's message_id is the message_id
\* of exactly one invoice record.
C6_SourceFileHasOneInvoice ==
    \A f \in source_files :
        Cardinality({r \in invoices : r.message_id = f.message_id}) = 1

\* A delete ran between the two statements of an insertInvoice: the record is gone
\* and the batch of source files was rejected.
C6_Witness ==
    \E p, q \in Procs :
        /\ p # q
        /\ proc[p].op = "insert" /\ proc[p].pc = "done" /\ proc[p].threw
        /\ ~proc[p].result.isNull
        /\ proc[q].op = "delete" /\ proc[q].pc = "done" /\ proc[q].success
        /\ proc[q].id = proc[p].result.val.id
        /\ \A r \in invoices : r.message_id # proc[p].messageId

\* C7: after deleteInvoice(id) has returned true, no record has that id (getInvoiceById
\* finds none), no source file has the deleted record's message_id, and the records
\* and source files of every other message_id are as they were.
C7_DeleteCascades ==
    (Finished("delete") /\ Me.success)
    => /\ PreRows # {}
       /\ RowsWithId(invoices, Me.id) = {}
       /\ \A f \in source_files : f.message_id # PreRow.message_id
       /\ invoices = Me.pre.invoices \ PreRows
       /\ source_files = {f \in Me.pre.source_files : f.message_id # PreRow.message_id}

\* A record with source files was deleted while another record with source files
\* stays.
C7_Witness ==
    /\ Finished("delete") /\ Me.success /\ Me.http = 200
    /\ \E f \in Me.pre.source_files : f.message_id = Me.messageId
    /\ invoices # {}
    /\ source_files # {}

\* C8: for an update whose payload has status: when the new status is 'paid' the
\* resulting paid_at is not null and manually_edited_fields includes 'status'; when
\* it is not 'paid' and the record was 'paid' before, the resulting paid_at is null.
C8_StatusSetsPaidAt ==
    (Finished("patch") /\ PreRows # {} /\ IsInvoiceUpdateRequest(Me.updates)
        /\ HasKey(Me.updates, "status"))
    => /\ ~Me.result.isNull
       /\ Get(Me.updates, "status") = "paid"
            => /\ Me.result.val.paid_at # NULL
               /\ ~Me.result.val.manually_edited_fields.isNull
               /\ "status" \in Range(Me.result.val.manually_edited_fields.val)
       /\ (Get(Me.updates, "status") # "paid" /\ PreRow.status = "paid")
            => Me.result.val.paid_at = NULL

\* An unpaid record with paid_at null has been updated to 'paid'.
C8_Witness ==
    /\ Finished("patch") /\ Me.http = 200
    /\ PreRows # {} /\ PreRow.status = "unpaid" /\ PreRow.paid_at = NULL
    /\ HasKey(Me.updates, "status") /\ Get(Me.updates, "status") = "paid"
    /\ Me.result.val.paid_at # NULL

\* C9: a PATCH body with paid = true and no status is handled as status = 'paid' (the
\* record becomes 'paid' and its paid_at is set); for every body, the key 'paid' is
\* not in the payload given to updateInvoice, the paid column is never written and
\* 'paid' is never among a record's manually_edited_fields.
C9_LegacyPaid ==
    /\ Me.op = "patch" => ~HasKey(Me.updates, "paid")
    /\ \A r \in invoices : r.paid = 0 /\ "paid" \notin EditedNames(r)
    /\ (Me.op = "patch" /\ HasKey(Me.body, "paid") /\ Get(Me.body, "paid") = JsTrue
            /\ ~HasKey(Me.body, "status"))
       => /\ HasKey(Me.updates, "status") /\ Get(Me.updates, "status") = "paid"
          /\ (Me.pc = "done" /\ PreRows # {})
                => /\ Me.http = 200
                   /\ Me.result.val.status = "paid" /\ Me.result.val.paid_at # NULL
                   /\ NowRow.status = "paid" /\ NowRow.paid_at # NULL

\* A PATCH with body { paid: true } has turned an unpaid record into a paid one.
C9_Witness ==
    /\ Finished("patch") /\ Me.http = 200
    /\ Me.body = <<<<"paid", JsTrue>>>>
    /\ PreRows # {} /\ PreRow.status = "unpaid"
    /\ NowRow.status = "paid" /\ NowRow.paid_at # NULL
    /\ EditedNames(NowRow) = {"status"}

\* C10: for an id that has no record, getInvoiceById and updateInvoice return null and
\* deleteInvoice returns false, none raises, both tables are left as they were, and
\* the API answers 404.
C10_AbsentId ==
    (Me.pc = "done" /\ Me.op \in {"get", "patch", "delete"} /\ PreRows = {})
    => /\ ~Me.threw
       /\ Me.http = 404
       /\ Me.op \in {"get", "patch"} => Me.result.isNull
       /\ Me.op = "delete" => ~Me.success
       /\ invoices = Me.pre.invoices
       /\ source_files = Me.pre.source_files

\* A DELETE for an id that was never assigned, with records and source files in the
\* tables.
C10_Witness ==
    /\ Finished("delete") /\ Me.http = 404
    /\ PreRows = {}
    /\ invoices # {} /\ source_files # {}

\* C11: a record returned by insertInvoice has status 'unpaid', paid_at null and
\* manually_edited_fields null; and in every state, also of concurrent requests, each
\* name in a record's manually_edited_fields is a key of a payload that an UPDATE of
\* updateInvoice has applied to that record (the INSERT and markInvoiceAsPaid add none).
C11_EditedNamesWereApplied ==
    /\ \A p \in Procs :
          (proc[p].op = "insert" /\ ~proc[p].result.isNull)
          => /\ proc[p].result.val.status = "unpaid"
             /\ proc[p].result.val.paid_at = NULL
             /\ proc[p].result.val.manually_edited_fields = NullV
    /\ \A r \in invoices : \A n \in EditedNames(r) : <<r.id, n>> \in applied

\* A record whose supplier was edited has then been marked paid by markInvoiceAsPaid:
\* it is 'paid' and its manually_edited_fields names the supplier only.
C11_Witness ==
    \E p \in Procs : \E r \in invoices :
        /\ proc[p].op = "mark" /\ proc[p].pc = "done" /\ proc[p].id = r.id
        /\ r.status = "paid"
        /\ EditedNames(r) = {"supplier"}
        /\ applied = {<<r.id, "supplier">>}

(* ------------------------ ingestion properties ------------------------ *)
\* The calls the handler has made for the message it handles.
Called(name) == name \in Range(mail.calls)

\* The objects the handler has to write for its message: bronze, silver, gold.
MailBronze == BronzeObjects(mail.timestamp, mail.messageId, mail.from, mail.attachmentData)
MailSilver == SilverObjects(mail.timestamp, mail.messageId, mail.markdownFiles)
MailGold == GoldObject(mail.timestamp, mail.messageId, mail.extraction)
Holds(object) == object.key \in DOMAIN R2 /\ R2[object.key] = object.body

\* C12: when insertInvoice has failed for a message (its message_id has a record
\* already), every bronze, silver and gold object written for the message is in the
\* bucket as it was written, the bucket is as it was when insertInvoice was called,
\* and a reply to the sender is attempted: the error reply is built and, if that
\* succeeds, handed to message.reply before the handler ends.
C12_InsertFailureKeepsBlobs ==
    (mail.error = "insert failed")
    => /\ R2 = mail.stored
       /\ \A i \in 1..Len(MailBronze) : Holds(MailBronze[i])
       /\ \A i \in 1..Len(MailSilver) : Holds(MailSilver[i])
       /\ Holds(MailGold)
       /\ Called("generateErrorReplyEmail")
       /\ ~mail.replyMessage.isNull => mail.replyMessage.val.to = mail.from
       /\ (mail.pc = "done" /\ ~mail.replyMessage.isNull) => Called("reply")

\* The second delivery of a message has failed on the duplicate message_id; its five
\* objects are stored and the error reply has been sent.
C12_Witness ==
    /\ mail.pc = "done" /\ mail.seq = 2
    /\ mail.error = "insert failed" /\ mail.thrown = "insert failed"
    /\ proc["w1"].threw
    /\ Cardinality({r \in invoices : r.message_id = mail.messageId}) = 1
    /\ Len(MailBronze) + Len(MailSilver) = 7
    /\ Called("reply") /\ mail.replied

\* C13: when the handler fails at a step after the sender validation, it builds the
\* error reply for the sender with the error's message and, if that succeeds, hands
\* it to message.reply; then it throws the error it caught, also when building or
\* sending the reply has failed; and it throws nothing before that.
C13_OriginalErrorSurfaces ==
    /\ mail.thrown # NULL => mail.pc = "done"
    /\ mail.error # NULL
       => /\ Called("generateErrorReplyEmail")
          /\ ~Called("setReject")
          /\ ~mail.replyMessage.isNull
                => mail.replyMessage.val = ErrorReply(mail.from, mail.error)
          /\ mail.pc = "done"
                => /\ mail.thrown = mail.error
                   /\ Called("reply") <=> ~mail.replyMessage.isNull
    /\ (mail.pc = "done" /\ mail.error = NULL) => mail.thrown = NULL

\* The gold put failed, the error reply was built, sending it failed, and the handler
\* has thrown the error of the put.
C13_Witness ==
    /\ mail.pc = "done"
    /\ mail.error = "gold put failed" /\ mail.thrown = "gold put failed"
    /\ ~mail.replyMessage.isNull /\ Called("reply") /\ ~mail.replied

\* C14: while and after a message of a sender that is not allowed is handled, the
\* only call made is message.setReject: nothing is converted, the LLM is not run, no
\* reply is built or sent, nothing is thrown; and no step of its handling changes the
\* bucket, the invoices or the source files.
C14_StrangerHasNoEffect ==
    /\ [](mail.from \notin AllowedSenders /\ mail.pc # "idle"
          => /\ mail.pc \in {"validate", "done"}
             /\ mail.calls = IF mail.pc = "done" THEN <<"setReject">> ELSE <<>>
             /\ mail.replyMessage.isNull
             /\ mail.error = NULL /\ mail.thrown = NULL)
    /\ [][(mail'.pc # "idle" /\ mail'.from \notin AllowedSenders)
          => /\ R2' = R2
             /\ invoices' = invoices
             /\ source_files' = source_files
             /\ proc' = proc]_vars

\* A stranger's message that uses the Message-ID of a stored invoice has been rejected.
C14_Witness ==
    /\ mail.pc = "done" /\ mail.from = "stranger@mail"
    /\ mail.calls = <<"setReject">>
    /\ \E r \in invoices : r.message_id = mail.messageId
    /\ DOMAIN R2 # {}

\* The LLM call threw, or its response has no '{' ... '}', or what the match holds is
\* not a JSON object.
LlmFailed(outcome) ==
    \/ outcome.threw
    \/ JsonMatch(ResponseText(outcome)).isNull
    \/ ~IsJSONObjectText(JsonMatch(ResponseText(outcome)).val)

\* C15: extractInvoiceInfo does not throw; when the LLM call throws, or the response
\* has no JSON object, or the matched text does not parse, the Extraction has every
\* scalar field null, items = [] and sourceFileReference = the first document's
\* filename (null without documents); and the handler goes on with it: the gold
\* object, the call of insertInvoice and the inserted record hold that Extraction.
C15_FallbackIsPersisted ==
    (Called("run") /\ LlmFailed(mail.llm))
    => /\ mail.extraction =
            [items |-> <<>>, supplier |-> NULL, amount |-> NULL, currency |-> NULL,
             invoiceId |-> NULL, accountIBAN |-> NULL, accountBIC |-> NULL,
             accountREG |-> NULL, accountNumber |-> NULL, lastPaymentDate |-> NULL,
             sourceFileReference |->
                 IF mail.markdownFiles = <<>> THEN NULL
                 ELSE mail.markdownFiles[1].filename]
       /\ mail.pc = "gold" => mail.error = NULL
       /\ mail.error \in {NULL, "gold put failed", "insert failed"}
       /\ mail.pc \in {"insert", "db"} => Holds(MailGold)
       /\ mail.pc = "db" => proc["w1"].extraction = mail.extraction
       /\ (mail.pc \in {"finally", "done"} /\ mail.error = NULL)
            => \E r \in invoices :
                 /\ r.message_id = mail.messageId
                 /\ r.supplier = NULL /\ r.amount = NULL /\ r.currency = NULL
                 /\ r.invoice_id = NULL /\ r.last_payment_date = NULL
                 /\ r.items_json = NullV

\* The response had braces around prose: the fallback names the email body, and it is
\* stored in the gold object and as a record.
C15_Witness ==
    /\ mail.pc = "done" /\ mail.error = NULL
    /\ ~mail.llm.threw /\ ~JsonMatch(ResponseText(mail.llm)).isNull
    /\ mail.extraction.sourceFileReference = "email-body"
    /\ mail.extraction.supplier = NULL
    /\ Holds(MailGold)
    /\ \E r \in invoices : r.message_id = mail.messageId /\ r.supplier = NULL

(* ------------------------ extraction properties ------------------------ *)
\* The value an object text gives a key: the value of its own member of that name
\* (the last one if the key is repeated), null if it has none.
FieldOf(object, k) ==
    LET at == {i \in 1..Len(object) :
                  object[i].t = "member" /\ object[i].k = k /\ Depth(object, i) = 1}
    IN IF at = {} THEN NULL ELSE object[Max(at)].v

ScalarFields ==
    {"supplier", "amount", "currency", "invoiceId", "accountIBAN", "accountBIC",
     "accountREG", "accountNumber", "lastPaymentDate"}

\* The response starts, after any prose, with a well-formed JSON object: its first
\* '{' is closed, and the text up to the closing '}' parses as an object.
FirstObjectWellFormed(text) ==
    /\ ~BalancedMatch(text).isNull
    /\ IsJSONObjectText(BalancedMatch(text).val)

\* C16: when the response holds a well-formed JSON object, with other text (prose,
\* further objects) before or after it, extractInvoiceInfo returns the fields of the
\* first brace-matched object, every field the object omits being null.
C16_FirstObjectIsUsed ==
    (Called("run") /\ ~mail.llm.threw /\ FirstObjectWellFormed(mail.llm.response))
    => \A k \in ScalarFields :
          mail.extraction[k] = FieldOf(BalancedMatch(mail.llm.response).val, k)

\* The part of C16 the code has: a response whose last '}' is the one that closes
\* its first '{' gives the fields of that object.
C16_OnlyObjectIsUsed ==
    (/\ Called("run") /\ ~mail.llm.threw /\ FirstObjectWellFormed(mail.llm.response)
     /\ JsonMatch(mail.llm.response) = BalancedMatch(mail.llm.response))
    => \A k \in ScalarFields :
          mail.extraction[k] = FieldOf(BalancedMatch(mail.llm.response).val, k)

C16_OnlyObjectWitness ==
    /\ Called("run")
    /\ mail.llm = Responds(<<Prose, Open, Member("supplier", "Acme"), Close, Prose>>)
    /\ mail.extraction.supplier = "Acme" /\ mail.extraction.amount = NULL

(* ------------------------ conversion properties ------------------------ *)
\* The names of the input documents: the body if the email has one, then the attachments.
InputNames ==
    (IF mail.text # "" \/ mail.html # "" THEN <<"email-body">> ELSE <<>>)
    \o [i \in 1..Len(mail.attachmentData) |-> mail.attachmentData[i].filename]

\* C17: processEmailAndAttachmentsToMarkdown returns one entry per input document
\* (the body if present, then the attachments), in that order and under the
\* document's name, whatever ai.toMarkdown does: the entry of a document whose result
\* is an error is a placeholder with its filename and the error, and when the call
\* throws every document has a placeholder with its filename.
C17_OneEntryPerDocument ==
    mail.pc = "silver"
    => /\ Len(mail.markdownFiles) = Len(InputNames)
       /\ \A i \in 1..Len(InputNames) :
             LET name == InputNames[i]
                 file == mail.markdownFiles[i]
             IN /\ file.filename = name
                /\ mail.conversion.threw
                     => file.content = "# " \o name \o "\n\n[AI conversion failed: Error]"
                /\ (~mail.conversion.threw /\ mail.conversion.results[i].format = "error")
                     => file.content =
                          "# " \o name \o "\n\n[Conversion error: "
                               \o mail.conversion.results[i].error \o "]"
                /\ (~mail.conversion.threw /\ mail.conversion.results[i].format # "error")
                     => file.content = mail.conversion.results[i].data

\* Body and two attachments; the conversion of the first attachment gave an error
\* result, the others were converted.
C17_Witness ==
    /\ mail.pc = "silver" /\ ~mail.conversion.threw
    /\ Len(mail.markdownFiles) = 3
    /\ mail.markdownFiles[1].filename = "email-body"
    /\ mail.conversion.results[2].format = "error"
    /\ mail.markdownFiles[2].content = "# a.pdf\n\n[Conversion error: unsupported]"
    /\ mail.markdownFiles[3].content = "markdown of unnamed"

\* The call threw: a placeholder for each of the two attachments of a message without body.
C17_ThrownWitness ==
    /\ mail.pc = "silver" /\ mail.conversion.threw
    /\ mail.text = "" /\ mail.html = ""
    /\ Len(mail.markdownFiles) = 2
    /\ mail.markdownFiles[1].filename = "b 1.png"

(* --------------------------- list properties --------------------------- *)
\* The records a list may return at all, and the positions first..last of an order.
Listed(options) ==
    IF options.unpaidOnly THEN {r \in invoices : r.status = "unpaid"} ELSE invoices
Positions(order, first, last) ==
    [i \in 1..(IF Min({last, Len(order) - 1}) < first THEN 0
               ELSE Min({last, Len(order) - 1}) - first + 1) |-> order[first + i]]
IdsOf(rows) == [i \in 1..Len(rows) |-> rows[i].id]

\* The page of an order that limit n and offset k ask for: positions k .. k+n-1
\* (counted from 0); without a limit it has no end, without an offset it starts at 0.
Page(order, options) ==
    LET k == IF options.offset.isNull THEN 0 ELSE options.offset.val
    IN IF options.limit.isNull THEN Positions(order, k, Len(order))
       ELSE Positions(order, k, k + options.limit.val - 1)

\* C18: a list request does not raise, also with an offset and no limit; what it
\* returns is in descending created_at order; with unpaidOnly and no page it is
\* exactly the unpaid records; with limit n and offset k it is the records at
\* positions k .. k+n-1 of that order, and with only a limit the first n.  (A list
\* with an offset and no limit may return the order from position k or whole.)
C18_ListPages ==
    \A p \in Procs :
        (proc[p].op = "list" /\ proc[p].pc = "done")
        => LET o == proc[p].options
               rows == proc[p].rows
           IN /\ ~proc[p].threw /\ proc[p].http = 200
              /\ \A i, j \in 1..Len(rows) :
                    i < j => SecondOf(rows[i].created_at) >= SecondOf(rows[j].created_at)
              /\ (o.limit.isNull /\ o.offset.isNull)
                    => /\ {rows[i].id : i \in 1..Len(rows)} = {r.id : r \in Listed(o)}
                       /\ Len(rows) = Cardinality(Listed(o))
              /\ ~o.limit.isNull
                    => \E order \in DescOrders(Listed(o)) :
                          IdsOf(rows) = IdsOf(Page(order, o))
              /\ (o.limit.isNull /\ ~o.offset.isNull)
                    => \E order \in DescOrders(Listed(o)) :
                          \/ IdsOf(rows) = IdsOf(Page(order, o))
                          \/ IdsOf(rows) = IdsOf(order)

\* The part of C18 the code has: the same for every request but one with limit 0.
C18_ListPagesWithLimit ==
    \A p \in Procs :
        (proc[p].op = "list" /\ proc[p].pc = "done")
        => LET o == proc[p].options
               rows == proc[p].rows
           IN /\ ~proc[p].threw /\ proc[p].http = 200
              /\ \A i, j \in 1..Len(rows) :
                    i < j => SecondOf(rows[i].created_at) >= SecondOf(rows[j].created_at)
              /\ (o.limit.isNull /\ o.offset.isNull)
                    => /\ {rows[i].id : i \in 1..Len(rows)} = {r.id : r \in Listed(o)}
                       /\ Len(rows) = Cardinality(Listed(o))
              /\ (~o.limit.isNull /\ o.limit.val >= 1)
                    => \E order \in DescOrders(Listed(o)) :
                          IdsOf(rows) = IdsOf(Page(order, o))
              /\ (o.limit.isNull /\ ~o.offset.isNull)
                    => \E order \in DescOrders(Listed(o)) : IdsOf(rows) = IdsOf(order)

\* Two records, the later one listed first; limit 1 and offset 1 returned the earlier.
C18_PageWitness ==
    /\ proc["w1"].op = "list" /\ proc["w1"].pc = "done"
    /\ proc["w1"].options = [unpaidOnly |-> FALSE, limit |-> Val(1), offset |-> Val(1)]
    /\ Cardinality(invoices) = 2
    /\ Len(proc["w1"].rows) = 1
    /\ \E r \in invoices : SecondOf(r.created_at) > SecondOf(proc["w1"].rows[1].created_at)

(* ---------------------- concurrent updates of a record ----------------- *)
\* updateInvoice of worker p has run its UPDATE on record r.
Wrote(p, r) ==
    /\ proc[p].op = "patch" /\ proc[p].id = r.id
    /\ proc[p].pc \in {"select", "sources", "done"}
    /\ ~proc[p].threw
    /\ proc[p].pc = "done" => proc[p].http = 200

\* What worker p read of the record was read before any UPDATE of updateInvoice wrote
\* it: every such UPDATE leaves manually_edited_fields not null.
ReadBeforeWrites(p) == proc[p].currentInvoice.manually_edited_fields = NullV

\* C19: a record that two updateInvoice calls have written, each having read it
\* before either wrote, has status 'paid' exactly when its paid_at is not null.
C19_RacePaidIffPaidAt ==
    \A r \in invoices : \A p, q \in Procs :
        (p # q /\ Wrote(p, r) /\ Wrote(q, r) /\ ReadBeforeWrites(p) /\ ReadBeforeWrites(q))
        => ((r.status = "paid") <=> (r.paid_at # NULL))

\* C20: when an updateInvoice call writes a record that another call has written
\* since it read it (both have read before either wrote), its UPDATE wins: the stored
\* manually_edited_fields is the names it read joined with the keys of its payload
\* and nothing of the other call, every column of its payload holds the payload's
\* value, and every other editable column keeps the value it had, that of the last
\* UPDATE that assigned it.
C20_LastUpdateWins ==
    [][\A r \in invoices : \A p, q \in Procs :
          (/\ p # q /\ Wrote(p, r) /\ ReadBeforeWrites(p)
           /\ proc[q].op = "patch" /\ proc[q].id = r.id /\ proc[q].pc = "update"
           /\ ReadBeforeWrites(q)
           /\ proc'[q].pc = "select")
          => \E w \in invoices' :
                /\ w.id = r.id
                /\ RowsWithId(invoices', r.id) = {w}
                /\ ~w.manually_edited_fields.isNull
                /\ EditedNames(w) = KeySet(proc[q].updates)
                /\ \A c \in EditableField :
                      w[c] = IF c \in KeySet(proc[q].updates)
                             THEN Get(proc[q].updates, c) ELSE r[c]]_vars

\* Both calls read the record before either wrote; the call that set the supplier
\* wrote first, the call that set the status last: the names hold 'status' alone
\* while the supplier is still the one the first call wrote.
C20_Witness ==
    \E r \in invoices : \E p, q \in Procs :
        /\ p # q /\ Wrote(p, r) /\ Wrote(q, r)
        /\ ReadBeforeWrites(p) /\ ReadBeforeWrites(q)
        /\ KeySet(proc[p].updates) = {"supplier"}
        /\ KeySet(proc[q].updates) = {"status"}
        /\ EditedNames(r) = {"status"}
        /\ r.supplier = "Acme Ltd" /\ r.status = "paid"

(* ------------------------ the frame of an update ----------------------- *)
\* The columns an UPDATE of updateInvoice with payload U may assign.
Assignable(updates) ==
    KeySet(updates) \cup (IF HasKey(updates, "status") THEN {"paid_at"} ELSE {})

\* C21: an update of an existing record with payload U changes no column of the
\* record but those named in U, manually_edited_fields, and paid_at when U has
\* status: without status in U, status and paid_at are as before; id, message_id,
\* created_at and items_json are as before; the source files and every other record
\* are as before.  An update that finds no record or is rejected changes nothing.
C21_UpdateFrame ==
    Finished("patch")
    => /\ source_files = Me.pre.source_files
       /\ invoices \ NowRows = Me.pre.invoices \ PreRows
       /\ (PreRows = {} \/ Me.threw) => invoices = Me.pre.invoices
       /\ (PreRows # {} /\ ~Me.threw)
            => /\ Cardinality(NowRows) = 1
               /\ \A c \in OtherColumns \ Assignable(Me.updates) : NowRow[c] = PreRow[c]
               /\ ~HasKey(Me.updates, "status")
                    => NowRow.status = PreRow.status /\ NowRow.paid_at = PreRow.paid_at
               /\ NowRow.id = PreRow.id /\ NowRow.message_id = PreRow.message_id
               /\ NowRow.created_at = PreRow.created_at
               /\ NowRow.items_json = PreRow.items_json

\* A paid record with a source file has been given another currency: it is still
\* paid, since the same second.
C21_Witness ==
    /\ Finished("patch") /\ Me.http = 200
    /\ HasKey(Me.updates, "currency") /\ ~HasKey(Me.updates, "status")
    /\ PreRows # {} /\ PreRow.status = "paid" /\ PreRow.paid_at # NULL
    /\ PreRow.currency # NowRow.currency
    /\ NowRow.status = "paid" /\ NowRow.paid_at = PreRow.paid_at
    /\ source_files # {}

(* ------------------------- the names of the edits ---------------------- *)
\* C22: after any sequence of PATCH requests every name in a record's
\* manually_edited_fields is one of the eleven editable fields, and a key of a body
\* that is none of them is not persisted: the columns that are no editable field and
\* not paid_at are as the request found them.
C22_OnlyEditableNames ==
    /\ \A r \in invoices : EditedNames(r) \subseteq EditableField
    /\ (Finished("patch") /\ PreRows # {})
         => \A c \in (OtherColumns \ EditableField) \ {"paid_at"} : NowRow[c] = PreRow[c]

\* The part of C22 the code has: a key that is no editable field is not persisted.
C22_ForeignKeysNotPersisted ==
    (Finished("patch") /\ PreRows # {})
    => \A c \in (OtherColumns \ EditableField) \ {"paid_at"} : NowRow[c] = PreRow[c]

C22_ForeignKeyWitness ==
    /\ Finished("patch") /\ Me.http = 200
    /\ HasKey(Me.updates, "message_id")
    /\ NowRow.message_id = "<a@mail>" /\ NowRow.supplier = "Acme Ltd"

\* The names of a record's manually_edited_fields in their stored order.
EditedList(row) ==
    LET parsed == parseManuallyEditedFields(row.manually_edited_fields)
    IN IF parsed.isNull THEN <<>> ELSE parsed.val

\* C23: when updates run one at a time, an update of a record keeps the names the
\* record had, in their order, at the front of manually_edited_fields, and appends
\* the keys of its payload that were not among them, in the payload's order; no
\* record holds a name twice; and an update whose keys are all among the names of an
\* edited record (as after the same payload was applied once) leaves
\* manually_edited_fields as it is.
C23_EditedNamesGrowInOrder ==
    /\ \A r \in invoices : \A i, j \in 1..Len(EditedList(r)) :
          i # j => EditedList(r)[i] # EditedList(r)[j]
    /\ (Finished("patch") /\ PreRows # {} /\ ~Me.threw)
         => LET before == EditedList(PreRow)
                after == EditedList(NowRow)
                new(k) == k \notin Range(before)
            IN /\ ~NowRow.manually_edited_fields.isNull
               /\ Len(after) >= Len(before)
               /\ SubSeq(after, 1, Len(before)) = before
               /\ SubSeq(after, Len(before) + 1, Len(after))
                     = SelectSeq(Keys(Me.updates), new)
               /\ (~PreRow.manually_edited_fields.isNull
                   /\ KeySet(Me.updates) \subseteq Range(before))
                     => NowRow.manually_edited_fields = PreRow.manually_edited_fields

\* A record whose status was edited has been given an amount, a supplier and a status:
\* status stays first and is not repeated.
C23_Witness ==
    /\ Finished("patch") /\ Me.http = 200
    /\ PreRows # {} /\ EditedList(PreRow) = <<"status">>
    /\ Keys(Me.updates) = <<"amount", "supplier", "status">>
    /\ EditedList(NowRow) = <<"status", "amount", "supplier">>

\* The same payload has been applied a second time: the names are as after the first.
C23_TwiceWitness ==
    /\ Finished("patch") /\ Me.http = 200
    /\ PreRows # {} /\ EditedList(PreRow) = <<"amount", "supplier", "status">>
    /\ Keys(Me.updates) = <<"amount", "supplier", "status">>
    /\ NowRow.manually_edited_fields = PreRow.manually_edited_fields

(* --------------------- failures and order of ingestion ----------------- *)
StorageErrors == {"bronze put failed", "silver put failed", "gold put failed"}
HeldIn(bucket, object) == object.key \in DOMAIN bucket /\ bucket[object.key] = object.body

\* C24: when a put of the bronze, silver or gold layer has failed for a message, the
\* handler goes to its catch and finally blocks: no later layer is written and no
\* conversion, extraction or insertInvoice is started, no step changes the bucket or
\* the tables again, the objects of the layers written before are in the bucket as
\* written and no object is ever removed, and the handler ends by throwing the
\* storage error.
C24_StorageFailureAborts ==
    /\ [](mail.error \in StorageErrors
          => /\ mail.pc \in {"finally", "done"}
             /\ ~Called("insertInvoice") /\ ~Called("generateReplyEmail")
             /\ mail.error = "bronze put failed"
                   => ~Called("toMarkdown") /\ ~Called("run")
             /\ mail.error = "silver put failed" => ~Called("run")
             /\ mail.pc = "done" => mail.thrown = mail.error)
    /\ [][/\ (mail.error \in StorageErrors /\ mail'.seq = mail.seq)
               => /\ R2' = R2
                  /\ invoices' = invoices
                  /\ source_files' = source_files
                  /\ proc' = proc
          /\ DOMAIN R2 \subseteq DOMAIN R2'
          /\ (mail.error = NULL /\ mail'.error \in {"silver put failed", "gold put failed"})
               => \A i \in 1..Len(MailBronze) : HeldIn(R2', MailBronze[i])
          /\ (mail.error = NULL /\ mail'.error = "gold put failed")
               => \A i \in 1..Len(MailSilver) : HeldIn(R2', MailSilver[i])]_vars

\* A put of the silver layer failed for a first delivery: the bronze objects are
\* stored, there is no record of the message, and the error has been thrown.
C24_Witness ==
    /\ mail.pc = "done" /\ mail.seq = 1
    /\ mail.error = "silver put failed" /\ mail.thrown = "silver put failed"
    /\ Len(MailBronze) = 4 /\ \A i \in 1..4 : Holds(MailBronze[i])
    /\ invoices = {} /\ source_files = {}

\* C25: insertInvoice is called, and a record inserted, only when the raw email, the
\* metadata, every attachment, every markdown file and the extraction of the message
\* are stored under bronze/, silver/ and gold/ with the one timestamp generated for
\* the message and its sanitized message id; the Extraction in the gold object is
\* the one handed to insertInvoice and found in the record.
C25_RecordAfterBlobs ==
    /\ [](Called("insertInvoice")
          => LET ts == mail.timestamp
                 id == SanitizedMessageId(mail.messageId)
                 gold == <<"gold", ts, id, "extracted.json">>
             IN /\ \E t \in 0..MaxClock : ts = generateTimestamp(t)
                /\ <<"bronze", ts, id, "email.raw">> \in DOMAIN mail.stored
                /\ <<"bronze", ts, id, "metadata.json">> \in DOMAIN mail.stored
                /\ \A i \in 1..Len(mail.attachmentData) :
                      /\ <<"bronze", ts, id, mail.attachmentData[i].filename>>
                            \in DOMAIN mail.stored
                      /\ mail.stored[<<"bronze", ts, id, mail.attachmentData[i].filename>>]
                            = mail.attachmentData[i].data
                /\ \A i \in 1..Len(mail.markdownFiles) :
                      HeldIn(mail.stored, MailSilver[i])
                /\ Len(MailSilver) = Len(mail.markdownFiles)
                /\ \A i \in 1..Len(MailSilver) :
                      SubSeq(MailSilver[i].key, 1, 3) = <<"silver", ts, id>>
                /\ gold \in DOMAIN mail.stored
                /\ mail.stored[gold] = mail.extraction
                /\ proc["w1"].op = "insert" /\ proc["w1"].extraction = mail.stored[gold]
                /\ (mail.pc \in {"finally", "done"} /\ mail.error = NULL)
                     => \E r \in invoices :
                          /\ r.message_id = mail.messageId
                          /\ r.supplier = mail.stored[gold].supplier
                          /\ r.amount = mail.stored[gold].amount
                          /\ r.currency = mail.stored[gold].currency
                          /\ r.invoice_id = mail.stored[gold].invoiceId
                          /\ r.last_payment_date = mail.stored[gold].lastPaymentDate)
    /\ [][invoices' # invoices
          => /\ mail.pc = "db" /\ R2 = mail.stored
             /\ \A r \in invoices' \ invoices : r.message_id = mail.messageId]_vars

\* The invoice of the first message is stored with what the LLM extracted.
C25_Witness ==
    /\ mail.pc = "done" /\ mail.error = NULL /\ Called("insertInvoice")
    /\ mail.extraction.supplier = "Acme" /\ mail.extraction.amount = "#150"
    /\ Len(mail.attachmentData) = 2 /\ Len(mail.markdownFiles) = 3
    /\ \E r \in invoices : r.message_id = mail.messageId /\ r.supplier = "Acme"
    /\ R2[<<"gold", mail.timestamp, "_a_mail_", "extracted.json">>].supplier = "Acme"

\* The number of calls of message.reply for the message.
Replies == Cardinality({i \in 1..Len(mail.calls) : mail.calls[i] = "reply"})

\* C26: for a message the handler calls message.reply at most once, with the one
\* reply it has built: the summary only when insertInvoice has returned a record,
\* the error reply when a step has failed.
C26_AtMostOneReply ==
    /\ Replies <= 1
    /\ Called("reply") => (mail.pc = "done" /\ ~mail.replyMessage.isNull)
    /\ ~mail.replyMessage.isNull
         => /\ mail.replyMessage.val.kind = "summary"
                 => /\ mail.error = NULL
                    /\ proc["w1"].op = "insert" /\ proc["w1"].pc = "done"
                    /\ ~proc["w1"].threw
                    /\ \E r \in invoices : r.message_id = mail.messageId
            /\ mail.replyMessage.val.kind = "error" => mail.error # NULL
    /\ mail.error # NULL
         => (mail.replyMessage.isNull \/ mail.replyMessage.val.kind = "error")

\* The insert failed and the one reply sent is the error reply.
C26_Witness ==
    /\ mail.pc = "done" /\ mail.error = "insert failed"
    /\ Replies = 1 /\ mail.replied
    /\ mail.replyMessage.val.kind = "error"
    /\ ~Called("generateReplyEmail")

\* The insert succeeded and the one reply sent is the summary.
C26_SummaryWitness ==
    /\ mail.pc = "done" /\ mail.error = NULL
    /\ Replies = 1 /\ mail.replied
    /\ mail.replyMessage.val.kind = "summary"

(* ------------------------- attachments and files ----------------------- *)
\* The source files stored for the message being handled.
MailSourceFiles == {f \in source_files : f.message_id = mail.messageId}
Ingested == mail.pc = "done" /\ mail.error = NULL /\ Called("insertInvoice")

\* C27: after a successful ingestion the source files of the record are the
\* attachments of the message, one for each and no other (none for the email body),
\* each with the attachment's filename and, as blob_uri, the bronze path of the
\* message that ends with that filename, which is not empty.
C27_SourceFilesAreAttachments ==
    Ingested
    => /\ Cardinality(MailSourceFiles) = Len(mail.attachmentData)
       /\ \A i \in 1..Len(mail.attachmentData) :
             \E f \in MailSourceFiles :
                /\ f.filename = mail.attachmentData[i].filename
                /\ f.blob_uri # ""
                /\ f.blob_uri = Join(<<"bronze", mail.timestamp,
                                       SanitizedMessageId(mail.messageId),
                                       mail.attachmentData[i].filename>>)
       /\ \A f \in MailSourceFiles :
             \E i \in 1..Len(mail.attachmentData) :
                f.filename = mail.attachmentData[i].filename

\* The part of C27 the code has: the same for a message none of whose attachments
\* is named 'email-body'.
C27_UnlessNamedBody ==
    (Ingested /\ \A i \in 1..Len(mail.attachmentData) :
                    mail.attachmentData[i].filename # "email-body")
    => /\ Cardinality(MailSourceFiles) = Len(mail.attachmentData)
       /\ \A i \in 1..Len(mail.attachmentData) :
             \E f \in MailSourceFiles :
                /\ f.filename = mail.attachmentData[i].filename
                /\ f.blob_uri # ""
                /\ f.blob_uri = Join(<<"bronze", mail.timestamp,
                                       SanitizedMessageId(mail.messageId),
                                       mail.attachmentData[i].filename>>)

C27_UnlessNamedBodyWitness ==
    /\ Ingested /\ Len(mail.attachmentData) = 2
    /\ mail.attachmentData[2].filename = "unnamed"
    /\ Cardinality(MailSourceFiles) = 2
    /\ \E f \in MailSourceFiles : f.filename = "unnamed" /\ f.blob_uri # ""

\* C28: the keys one call of persistToBronzeLayer has written to - one for the raw
\* email, one for the metadata and one for every attachment - are pairwise distinct,
\* whatever the filenames of the attachments.
C28_BronzeKeysDistinct ==
    (mail.pc = "convert")
    => /\ Len(mail.bronzePaths) = Len(mail.attachmentData) + 2
       /\ \A i, j \in 1..Len(mail.bronzePaths) :
             i # j => mail.bronzePaths[i] # mail.bronzePaths[j]

\* The part of C28 the code has: the keys are distinct, and every object is in the
\* bucket as it was written, when the filenames of the attachments differ from each
\* other and from 'email.raw' and 'metadata.json'.
C28_DistinctNamesDistinctKeys ==
    (/\ mail.pc = "convert"
     /\ \A i, j \in 1..Len(mail.attachmentData) :
           i # j => mail.attachmentData[i].filename # mail.attachmentData[j].filename
     /\ \A i \in 1..Len(mail.attachmentData) :
           mail.attachmentData[i].filename \notin {"email.raw", "metadata.json"})
    => /\ \A i, j \in 1..Len(mail.bronzePaths) :
             i # j => mail.bronzePaths[i] # mail.bronzePaths[j]
       /\ \A i \in 1..Len(MailBronze) : Holds(MailBronze[i])

C28_DistinctNamesWitness ==
    /\ mail.pc = "convert" /\ Len(mail.bronzePaths) = 4
    /\ mail.attachmentData[1].filename = "a.pdf"
    /\ mail.attachmentData[2].filename = "unnamed"
    /\ \A i \in 1..4 : Holds(MailBronze[i])

\* A request, not a preflight, made outside development with a token that
\* verifyAccessJWT has not accepted.
Unverified(rec) ==
    /\ rec.api.request.method \notin {"", "OPTIONS"}
    /\ rec.api.environment # "development"
    /\ ~rec.api.authResult.authenticated

\* C29: outside development, a request other than an OPTIONS preflight whose token
\* fails verification is answered 401 at once, without any route being entered, so
\* that no statement is run and no object is fetched for it; the step that answers
\* it leaves every record, every source file and every object as it was.
C29_UnverifiedGets401 ==
    /\ [](\A p \in Procs :
            Unverified(proc[p])
            => /\ proc[p].pc = "done" /\ proc[p].http = 401 /\ proc[p].op = "none"
               /\ proc[p].invoice.isNull /\ proc[p].rows = <<>>
               /\ proc[p].api.object.isNull
               /\ proc[p].pre = [invoices |-> invoices, source_files |-> source_files])
    /\ [][\A p \in Procs :
            (Unverified(proc'[p]) /\ proc'[p] # proc[p])
            => UNCHANGED <<invoices, source_files, seq_invoices, seq_source_files,
                           applied, R2>>]_vars

\* A DELETE of the existing record with a token that has expired is answered 401.
C29_Witness ==
    /\ Unverified(Me) /\ Me.http = 401
    /\ Me.api.request.method = "DELETE"
    /\ Me.api.authResult.error = "JWT has expired"
    /\ invoices # {} /\ source_files # {} /\ DOMAIN R2 # {}

\* Every way a token can be wrong is a failed verification; a token that is right
\* is accepted, and in development the request is routed whatever the token.
C29_VerificationFails ==
    \A jwt \in JwtHeaders, publicKey \in PublicKeys, t \in 0..MaxClock :
        verifyAccessJWT(jwt, TeamName, t, publicKey).authenticated
        <=> (jwt = Val(GoodJwt) /\ publicKey = "key")
            \/ (~jwt.isNull /\ jwt.val = [GoodJwt EXCEPT !.exp = 0] /\ t = 0
                /\ publicKey = "key")
====
